---- MODULE Spec2Model ----
(***************************************************************************)
(* A model of the BITS transmission decoder of src/src/day16.rs: the hex   *)
(* lexer (parse_hex_byte, parse_hex), the bit-level packet parser          *)
(* (parse_packet and the parsers under it), the top-level parser           *)
(* (final_parse_top_packet) and the evaluator (version_sum, value).        *)
(*                                                                         *)
(* The parsers are pure functions and are modelled as operators.  The      *)
(* state machine runs one decode: part1 / part2 on one input string, with  *)
(* one step per phase of final_parse_hex_packet.                           *)
(*                                                                         *)
(* Conventions.                                                            *)
(*  - A &str is a record [base, chars]: base is the byte offset of the     *)
(*    slice in the string the caller passed, chars its characters (each a  *)
(*    one-character string; EAcute stands for a two-byte UTF-8 character). *)
(*  - A BitsInput (&[u8], usize) is a record [buf, off]: buf the remaining *)
(*    bytes (0..255), off the bit offset into the first of them.           *)
(*  - An IResult is [ok |-> TRUE, tail, val] or [ok |-> FALSE, fail, at]   *)
(*    with fail one of "Error", "Failure" (nom::Err) or "Panic" (the       *)
(*    thread unwinds: an arithmetic overflow under overflow checks, or a   *)
(*    str::split_at off a character boundary).                             *)
(*  - A usize that wrapped below zero is kept as its two's-complement      *)
(*    representative: a value v < 0 stands for 2^64 + v.                   *)
(***************************************************************************)
EXTENDS Integers, Sequences, FiniteSets, TLC

\* One decode: the input string, the build's overflow checks, the phase
\* reached, and the results of the hex lexer, the bit parser and the part.
VARIABLES input, overflow_checks, pc, hex, packet, answer

\* One iteration of streaming_windows::<N>(): the items of the source, N,
\* whether the source knows its lower bound, the Windows, the arrays it has
\* yielded, and what the last next() and the last size_hint() returned.
VARIABLES source, N, exact_size, windows, yielded, returned, hint

\* One call of recreate_context: its two inputs and the location returned.
VARIABLES original_input, tail_input, location

\* A sequence of take_bits / take_bit calls on a bit cursor: the bytes, the
\* caller's cursor, and the last call (its N, the cursor it was given and its
\* result).
VARIABLES cursor_bytes, cursor, taken

\* Threads calling take() on one AtomicCell: the cell's flag, its slot, the
\* number of reads of the slot, and for each thread where it is in take(),
\* the calls it has yet to make and what its calls returned.
VARIABLES cell_inhabited, cell_value, cell_reads, takers

\* Counters under add, add_one, extend and merge (library.rs).
VARIABLES counters, added, counter_ops, counter_panic

\* Counter::par_extend: the cell this, the fold tasks and the reduction (library.rs).
VARIABLES par_initial, par_items, this, tasks, par_result, par_panic

\* iter.use_oks(body): the adapter, the calls body makes and the result (library.rs).
VARIABLES oks_source, adapter, calls, oks_result

decode_vars == <<input, overflow_checks, pc, hex, packet, answer>>

windows_vars == <<source, N, exact_size, windows, yielded, returned, hint>>

context_vars == <<original_input, tail_input, location>>

cursor_vars == <<cursor_bytes, cursor, taken>>

cell_vars == <<cell_inhabited, cell_value, cell_reads, takers>>

counter_vars == <<counters, added, counter_ops, counter_panic>>

par_vars == <<par_initial, par_items, this, tasks, par_result, par_panic>>

oks_vars == <<oks_source, adapter, calls, oks_result>>

vars == <<decode_vars, windows_vars, context_vars, cursor_vars, cell_vars, counter_vars, par_vars, oks_vars>>

\* The variables each state machine leaves alone.
beside_decode == <<windows_vars, context_vars, cursor_vars, cell_vars, counter_vars, par_vars, oks_vars>>

beside_windows == <<decode_vars, context_vars, cursor_vars, cell_vars, counter_vars, par_vars, oks_vars>>

beside_context == <<decode_vars, windows_vars, cursor_vars, cell_vars, counter_vars, par_vars, oks_vars>>

beside_cursor == <<decode_vars, windows_vars, context_vars, cell_vars, counter_vars, par_vars, oks_vars>>

beside_cell == <<decode_vars, windows_vars, context_vars, cursor_vars, counter_vars, par_vars, oks_vars>>

beside_counter == <<decode_vars, windows_vars, context_vars, cursor_vars, cell_vars, par_vars, oks_vars>>

beside_par == <<decode_vars, windows_vars, context_vars, cursor_vars, cell_vars, counter_vars, oks_vars>>

beside_oks == <<decode_vars, windows_vars, context_vars, cursor_vars, cell_vars, counter_vars, par_vars>>

(***************************************************************************)
(* Characters and strings                                                  *)
(***************************************************************************)

\* A character that takes two bytes in UTF-8 (U+00E9).
EAcute == "e-acute"

HexDigits == {"0", "1", "2", "3", "4", "5", "6", "7", "8", "9",
              "a", "b", "c", "d", "e", "f", "A", "B", "C", "D", "E", "F"}

\* char::to_digit(16), as u8::from_str_radix uses it.
to_digit(c) ==
    CASE c = "0" -> 0 [] c = "1" -> 1 [] c = "2" -> 2 [] c = "3" -> 3
      [] c = "4" -> 4 [] c = "5" -> 5 [] c = "6" -> 6 [] c = "7" -> 7
      [] c = "8" -> 8 [] c = "9" -> 9
      [] c \in {"a", "A"} -> 10 [] c \in {"b", "B"} -> 11
      [] c \in {"c", "C"} -> 12 [] c \in {"d", "D"} -> 13
      [] c \in {"e", "E"} -> 14 [] c \in {"f", "F"} -> 15
      [] OTHER -> -1

\* char::is_whitespace, on the characters of the model.
is_whitespace(c) == c \in {" ", "\n"}

\* char::len_utf8
len_utf8(c) == IF c = EAcute THEN 2 ELSE 1

RECURSIVE chars_len(_)
chars_len(cs) == IF cs = <<>> THEN 0 ELSE len_utf8(Head(cs)) + chars_len(Tail(cs))

\* str::len: the length in bytes.
str_len(s) == chars_len(s.chars)

RECURSIVE trim_start(_)
trim_start(s) ==
    IF s.chars # <<>> /\ is_whitespace(Head(s.chars))
    THEN trim_start([base |-> s.base + len_utf8(Head(s.chars)), chars |-> Tail(s.chars)])
    ELSE s

RECURSIVE trim_end(_)
trim_end(s) ==
    IF s.chars # <<>> /\ is_whitespace(s.chars[Len(s.chars)])
    THEN trim_end([s EXCEPT !.chars = SubSeq(s.chars, 1, Len(s.chars) - 1)])
    ELSE s

\* str::trim
trim(s) == trim_end(trim_start(s))

\* str::split_at(2) on a string of at least two bytes: the two halves, or a
\* panic when byte 2 is inside a character.
split_at_2(s) ==
    LET c1 == Head(s.chars) IN
    IF len_utf8(c1) = 2
    THEN [ok |-> TRUE, byte |-> <<c1>>,
          tail |-> [base |-> s.base + 2, chars |-> Tail(s.chars)]]
    ELSE IF len_utf8(s.chars[2]) = 1
    THEN [ok |-> TRUE, byte |-> SubSeq(s.chars, 1, 2),
          tail |-> [base |-> s.base + 2, chars |-> SubSeq(s.chars, 3, Len(s.chars))]]
    ELSE [ok |-> FALSE]

RECURSIVE radix_digits(_, _)
radix_digits(digits, acc) ==
    IF digits = <<>> THEN [ok |-> TRUE, val |-> acc]
    ELSE IF to_digit(Head(digits)) < 0 THEN [ok |-> FALSE]
    ELSE IF acc * 16 + to_digit(Head(digits)) > 255 THEN [ok |-> FALSE]
    ELSE radix_digits(Tail(digits), acc * 16 + to_digit(Head(digits)))

\* u8::from_str_radix(src, 16): an optional leading "+", then hex digits.
from_str_radix_u8(src) ==
    IF src = <<>> THEN [ok |-> FALSE]
    ELSE IF Head(src) \in {"+", "-"} /\ Len(src) = 1 THEN [ok |-> FALSE]
    ELSE IF Head(src) = "+" THEN radix_digits(Tail(src), 0)
    ELSE radix_digits(src, 0)

(***************************************************************************)
(* Parse results                                                           *)
(***************************************************************************)

Ok(tail, val) == [ok |-> TRUE, tail |-> tail, val |-> val]

Err(fail, at) == [ok |-> FALSE, fail |-> fail, at |-> at]

\* The ? operator, and the sequencing of the combinators (pair, and,
\* terminated): the rest of the parser runs on a success, a failure returns.
and_then(r, rest(_)) == IF r.ok THEN rest(r) ELSE r

\* Parser::map: the value of a success mapped.
map(r, f(_)) == IF r.ok THEN [r EXCEPT !.val = f(r.val)] ELSE r

\* Parser::cut: an Error becomes a Failure.
cut(r) == IF ~r.ok /\ r.fail = "Error" THEN [r EXCEPT !.fail = "Failure"] ELSE r

\* alt((a, b)) that tries b after a Failure too.
alt_after_failure(a, b) == IF a.ok THEN a ELSE b

\* alt((a, b)): b is tried when a ends in an Error, not in a Failure.
alt(a, b) == IF a.ok \/ a.fail # "Error" THEN a ELSE b

\* A let binding.
let(v, body(_)) == body(v)

(***************************************************************************)
(* The hex lexer                                                           *)
(***************************************************************************)

\* parse_hex_byte with a final single digit taken as the low nibble.
parse_hex_byte_low_nibble(in) ==
    IF str_len(in) = 0 THEN Err("Error", in)
    ELSE IF str_len(in) = 1 THEN
        let(from_str_radix_u8(in.chars), LAMBDA b :
            IF b.ok THEN Ok([base |-> in.base + 1, chars |-> <<>>], b.val)
            ELSE Err("Error", in))
    ELSE
        let(split_at_2(in), LAMBDA sp :
            IF ~sp.ok THEN Err("Panic", in)
            ELSE let(from_str_radix_u8(sp.byte), LAMBDA b :
                     IF b.ok THEN Ok(sp.tail, b.val) ELSE Err("Error", in)))

parse_hex_byte(in) ==
    IF str_len(in) = 0 THEN Err("Error", in)
    ELSE IF str_len(in) = 1 THEN
        let(from_str_radix_u8(in.chars), LAMBDA b :
            IF b.ok THEN Ok([base |-> in.base + 1, chars |-> <<>>], (b.val * 16) % 256)
            ELSE Err("Error", in))
    ELSE
        let(split_at_2(in), LAMBDA sp :
            IF ~sp.ok THEN Err("Panic", in)
            ELSE let(from_str_radix_u8(sp.byte), LAMBDA b :
                     IF b.ok THEN Ok(sp.tail, b.val) ELSE Err("Error", in)))

\* collect_separated_terminated(parse_hex_byte, success(()), eof): an item,
\* then the terminator or else the (empty) separator and the next item.
RECURSIVE hex_items(_, _)
hex_items(in, bytes) ==
    LET item == parse_hex_byte(in)
    IN  IF ~item.ok THEN item
        ELSE IF str_len(item.tail) = 0 THEN Ok(item.tail, Append(bytes, item.val))
        ELSE hex_items(item.tail, Append(bytes, item.val))

parse_hex(in) == hex_items(trim(in), <<>>)

\* The number of "\n" among the characters, and the characters after the last.
newlines(cs) == Cardinality({i \in 1..Len(cs) : cs[i] = "\n"})

last_line(cs) ==
    LET nl == {i \in 1..Len(cs) : cs[i] = "\n"}
        from == IF nl = {} THEN 1 ELSE (CHOOSE i \in nl : \A j \in nl : j <= i) + 1
    IN  SubSeq(cs, from, Len(cs))

RECURSIVE prefix_bytes(_, _)
prefix_bytes(cs, n) ==
    IF n <= 0 \/ cs = <<>> THEN <<>>
    ELSE <<Head(cs)>> \o prefix_bytes(Tail(cs), n - len_utf8(Head(cs)))

\* Location::recreate_context: the 1-based line and column of tail in original.
Location_recreate_context(original, tail) ==
    let(prefix_bytes(original.chars, tail.base - original.base), LAMBDA prefix :
        [line |-> newlines(prefix) + 1, column |-> chars_len(last_line(prefix)) + 1])

\* final_parser(parse_hex): the bytes, or the error located in the input.
final_parse_hex(in) ==
    let(parse_hex(in), LAMBDA r :
        IF r.ok THEN [ok |-> TRUE, val |-> r.val]
        ELSE IF r.fail = "Panic" THEN [ok |-> FALSE, fail |-> "Panic"]
        ELSE [ok |-> FALSE, fail |-> "HexError",
              location |-> Location_recreate_context(in, r.at)])

(***************************************************************************)
(* The bit cursor                                                          *)
(***************************************************************************)

Pow2(n) == 2 ^ n

\* len: the length, in bits, of a BitsInput.
len(in) == (Len(in.buf) * 8) - in.off

\* Bit i (0 the most significant bit of the first byte) of a byte slice.
bit_at(buf, i) == (buf[(i \div 8) + 1] \div Pow2(7 - (i % 8))) % 2

RECURSIVE bits_value(_, _, _)
bits_value(buf, from, n) ==
    IF n = 0 THEN 0
    ELSE bit_at(buf, from) * Pow2(n - 1) + bits_value(buf, from + 1, n - 1)

\* take_bits reading its bits from the start of the first byte.
take_bits_of_first_byte(n, in) ==
    IF n = 0 THEN Ok(in, 0)
    ELSE IF Len(in.buf) * 8 < n + in.off THEN Err("Error", in)
    ELSE Ok([buf |-> SubSeq(in.buf, ((n + in.off) \div 8) + 1, Len(in.buf)),
             off |-> (n + in.off) % 8],
            bits_value(in.buf, 0, n))

\* take_bits::<T, N> (nom::bits::complete::take): the next n bits, most
\* significant first; an Eof error, the input untouched, when fewer remain.
take_bits(n, in) ==
    IF n = 0 THEN Ok(in, 0)
    ELSE IF Len(in.buf) * 8 < n + in.off THEN Err("Error", in)
    ELSE Ok([buf |-> SubSeq(in.buf, ((n + in.off) \div 8) + 1, Len(in.buf)),
             off |-> (n + in.off) % 8],
            bits_value(in.buf, in.off, n))

\* take_bit: a single bit as a bool.
take_bit(in) == map(take_bits(1, in), LAMBDA b : b # 0)

\* tag_bits(pattern, count) (nom::bits::complete::tag).
tag_bits(pattern, count, in) ==
    and_then(take_bits(count, in), LAMBDA r :
        IF r.val = pattern THEN r ELSE Err("Error", in))

(***************************************************************************)
(* u64 arithmetic                                                          *)
(***************************************************************************)

\* A u64 is kept as its hexadecimal digits, the most significant first.
U64Digits == 16

\* The digits as a sequence of U64Digits.
u64_digits(digit) == SubSeq(digit, 1, U64Digits)

U64Zero == u64_digits([i \in 1..U64Digits |-> 0])

\* n as u64, for 0 <= n < 2^31.
u64_from(n) ==
    u64_digits([i \in 1..U64Digits |->
                   IF i <= 8 THEN 0 ELSE (n \div Pow2(4 * (U64Digits - i))) % 16])

\* a << 4 that stops shifting once the top digit is in use.
u64_shl4_while_it_fits(a) == IF a[1] # 0 THEN a ELSE Tail(a) \o <<0>>

\* a << 4: the bits shifted out are lost.
u64_shl4(a) == Tail(a) \o <<0>>

\* The carry into digit i of a + b (into the 65th bit for i = 0): some
\* digit below i overflows and every digit between passes the carry on.
u64_carry(a, b, i) ==
    \E j \in (i + 1)..U64Digits :
        /\ a[j] + b[j] > 15
        /\ \A k \in (i + 1)..(j - 1) : a[k] + b[k] = 15

\* a + b: the wrapped sum and whether it overflowed.
u64_add(a, b) ==
    [overflow |-> u64_carry(a, b, 0),
     val |-> u64_digits([i \in 1..U64Digits |->
                (a[i] + b[i] + (IF u64_carry(a, b, i) THEN 1 ELSE 0)) % 16])]

\* The digit of weight 16^p of a.
u64_digit(a, p) == IF p < U64Digits THEN a[U64Digits - p] ELSE 0

\* The sum of the digit products of a * b of weight 16^c, over the digits
\* lo..hi of a: the two halves of the range added.
RECURSIVE u64_mul_column(_, _, _, _, _)
u64_mul_column(a, b, c, lo, hi) ==
    IF lo = hi THEN u64_digit(a, lo) * u64_digit(b, c - lo)
    ELSE u64_mul_column(a, b, c, lo, (lo + hi) \div 2)
         + u64_mul_column(a, b, c, ((lo + hi) \div 2) + 1, hi)

\* Some digit product of a * b has weight 16^U64Digits or more.
u64_mul_high(a, b) ==
    \E p \in 0..(U64Digits - 1), q \in 0..(U64Digits - 1) :
        p + q >= U64Digits /\ u64_digit(a, p) * u64_digit(b, q) # 0

\* a * b column by column from the lowest, given the carry and the digits
\* below, acc: the wrapped product, and whether it overflowed (a carry out of
\* the highest digit, or a digit product above it).
RECURSIVE u64_mul_from(_, _, _, _)
u64_mul_from(a, b, carry, acc) ==
    IF Len(acc) = U64Digits
    THEN [overflow |-> carry # 0 \/ u64_mul_high(a, b), val |-> acc]
    ELSE LET t == u64_mul_column(a, b, Len(acc), 0, Len(acc)) + carry
         IN  u64_mul_from(a, b, t \div 16, <<t % 16>> \o acc)

u64_mul(a, b) == u64_mul_from(a, b, 0, <<>>)

u64_lt(a, b) ==
    \E i \in 1..U64Digits :
        /\ a[i] < b[i]
        /\ \A j \in 1..(i - 1) : a[j] = b[j]

u64_le(a, b) == ~u64_lt(b, a)

(***************************************************************************)
(* The packet parser                                                       *)
(***************************************************************************)

\* parse_chunk: a continuation bit, then 4 payload bits.
parse_chunk(in) ==
    and_then(take_bit(in), LAMBDA more :
        and_then(take_bits(4, more.tail), LAMBDA payload :
            Ok(payload.tail, [more |-> more.val, payload |-> payload.val])))

\* The loop of parse_literal_packet without the shift of the result.
RECURSIVE literal_chunks_unshifted(_, _)
literal_chunks_unshifted(in, result) ==
    LET c == cut(parse_chunk(in))
        sum == Ok(c.tail, u64_add(result, u64_from(c.val.payload)).val)
    IN  IF ~c.ok THEN c
        ELSE IF c.val.more THEN literal_chunks_unshifted(sum.tail, sum.val)
        ELSE sum

\* The loop of parse_literal_packet: result = (result << 4) + payload, a sum
\* that cannot overflow, the low four bits of result << 4 being zero.
RECURSIVE literal_chunks(_, _)
literal_chunks(in, result) ==
    LET c == cut(parse_chunk(in))
        sum == Ok(c.tail, u64_add(u64_shl4(result), u64_from(c.val.payload)).val)
    IN  IF ~c.ok THEN c
        ELSE IF c.val.more THEN literal_chunks(sum.tail, sum.val)
        ELSE sum

parse_literal_packet(in) ==
    LET type_id == tag_bits(4, 3, in)
    IN  IF type_id.ok THEN literal_chunks(type_id.tail, U64Zero) ELSE type_id

Opcodes == {"Sum", "Product", "Min", "Max", "Greater", "Less", "Eq"}

opcode_of(type_id) ==
    CASE type_id = 0 -> "Sum"
      [] type_id = 1 -> "Product"
      [] type_id = 2 -> "Min"
      [] type_id = 3 -> "Max"
      [] type_id = 5 -> "Greater"
      [] type_id = 6 -> "Less"
      [] type_id = 7 -> "Eq"
      [] OTHER -> "None"

parse_opcode(in) ==
    and_then(take_bits(3, in), LAMBDA type_id :
        IF opcode_of(type_id.val) = "None" THEN Err("Error", in)
        ELSE Ok(type_id.tail, opcode_of(type_id.val)))

\* OperatorLength::empty taking a budget that was overrun for an empty one.
OperatorLength_empty_or_overrun(length) == length.n <= 0

\* OperatorLength::empty one too early.
OperatorLength_empty_at_one(length) == length.n <= 1

\* OperatorLength::empty
OperatorLength_empty(length) == length.n = 0

parse_operator_length(in) ==
    and_then(take_bit(in), LAMBDA length_type :
        IF ~length_type.val
        THEN map(take_bits(15, length_type.tail), LAMBDA n : [tag |-> "Bits", n |-> n])
        ELSE map(take_bits(11, length_type.tail), LAMBDA n : [tag |-> "Packets", n |-> n]))

\* a - b on usize: whether it overflows (a is kept as a representative, so a
\* value that already wrapped is huge), and the wrapped difference.
usize_sub(a, b) == [overflow |-> (a >= 0 /\ b > a), val |-> a - b]

\* A failure leaving the loop of parse_operator_packet, with the loop's log.
with_log(r, log) ==
    IF r.ok THEN r ELSE [ok |-> FALSE, fail |-> r.fail, at |-> r.at, log |-> log]

\* The decrement of the loop of parse_operator_packet.
decrement(length, packet_len) ==
    IF length.tag = "Bits" THEN usize_sub(length.n, packet_len)
    ELSE usize_sub(length.n, 1)

RECURSIVE parse_packet(_)
RECURSIVE operands(_, _, _, _)

\* The while loop of parse_operator_packet.  Beside the packets, log keeps
\* for each sub-packet parsed the budget (or count) left before it and the
\* bits it took (bit_count and packet_len of the loop body).
operands(in, length, packets, log) ==
    IF OperatorLength_empty(length)
    THEN [ok |-> TRUE, tail |-> in, val |-> packets, log |-> log]
    ELSE
        LET r == with_log(cut(parse_packet(in)), log)
            packet_len == len(in) - len(r.tail)
            sub == decrement(length, packet_len)
            log1 == Append(log, [left |-> length.n, packet_len |-> packet_len])
        IN  IF ~r.ok THEN r
            ELSE IF sub.overflow /\ overflow_checks THEN with_log(Err("Panic", in), log1)
            ELSE operands(r.tail, [length EXCEPT !.n = sub.val],
                          Append(packets, r.val), log1)

parse_operator_packet(in) ==
    LET opcode == parse_opcode(in)
        length == cut(parse_operator_length(opcode.tail))
        r == operands(length.tail, length.val, <<>>, <<>>)
    IN  IF ~opcode.ok THEN opcode
        ELSE IF ~length.ok THEN length
        ELSE IF ~r.ok THEN r
        ELSE [ok |-> TRUE, tail |-> r.tail, log |-> r.log,
              val |-> [type_id |-> opcode.val, operands |-> r.val]]

\* PacketData::Literal and PacketData::Operator
Literal(value) == [tag |-> "Literal", value |-> value]

Operator(op) == [tag |-> "Operator", op |-> op]

\* parse_packet: the version, then a literal or else an operator.
parse_packet(in) ==
    LET version == take_bits(3, in)
        data == alt(map(parse_literal_packet(version.tail), Literal),
                    map(parse_operator_packet(version.tail), Operator))
    IN  IF ~version.ok THEN version
        ELSE IF ~data.ok THEN data
        ELSE Ok(data.tail, [version |-> u64_from(version.val), data |-> data.val])

\* parse_trailing_zeroes with only the first bit checked.
parse_trailing_zeroes_first_only(in) ==
    and_then(tag_bits(0, 1, in), LAMBDA zero :
        Ok([buf |-> <<>>, off |-> 0], <<>>))

\* parse_trailing_zeroes: collect_separated_terminated(tag_bits(0, 1),
\* success(()), eof): a zero bit, then the end of the input or else the
\* (empty) separator and the next zero bit.
RECURSIVE parse_trailing_zeroes(_)
parse_trailing_zeroes(in) ==
    LET zero == tag_bits(0, 1, in)
    IN  IF ~zero.ok THEN zero
        ELSE IF len(zero.tail) = 0 THEN Ok(zero.tail, <<>>)
        ELSE parse_trailing_zeroes(zero.tail)

\* parse_top_packet: parse_packet.terminated(parse_trailing_zeroes)
parse_top_packet(in) ==
    and_then(parse_packet(in), LAMBDA p :
        map(parse_trailing_zeroes(p.tail), LAMBDA zeroes : p.val))

BitErrorLocation_normalize(l) ==
    [byte_offset |-> l.byte_offset + (l.bit_offset \div 8),
     bit_offset |-> l.bit_offset % 8]

BitErrorLocation_from_input(in) ==
    BitErrorLocation_normalize([byte_offset |-> Len(in.buf), bit_offset |-> in.off])

\* recreate_context without the borrow of a byte.
recreate_context_no_borrow(original_in, tail_in) ==
    let(BitErrorLocation_from_input(original_in), LAMBDA original :
    let(BitErrorLocation_from_input(tail_in), LAMBDA tail :
        [byte_offset |-> original.byte_offset - tail.byte_offset,
         bit_offset |-> tail.bit_offset - original.bit_offset]))

\* RecreateContext::recreate_context for BitErrorLocation
recreate_context(original_in, tail_in) ==
    let(BitErrorLocation_from_input(original_in), LAMBDA original :
    let(BitErrorLocation_from_input(tail_in), LAMBDA t :
    let(IF original.bit_offset > t.bit_offset
        THEN [byte_offset |-> t.byte_offset + 1, bit_offset |-> t.bit_offset + 8]
        ELSE t, LAMBDA tail :
        [byte_offset |-> original.byte_offset - tail.byte_offset,
         bit_offset |-> tail.bit_offset - original.bit_offset])))

\* The match of final_parse_top_packet: the packet, or the error located
\* from the start of the buffer.
extract_context(start, r) ==
    IF r.ok THEN [ok |-> TRUE, val |-> r.val]
    ELSE IF r.fail = "Panic" THEN [ok |-> FALSE, fail |-> "Panic"]
    ELSE [ok |-> FALSE, fail |-> "BitError", location |-> recreate_context(start, r.at)]

final_parse_top_packet(bytes) ==
    extract_context([buf |-> bytes, off |-> 0],
                    parse_top_packet([buf |-> bytes, off |-> 0]))

(***************************************************************************)
(* The evaluator                                                           *)
(***************************************************************************)

None == [some |-> FALSE]
Some(x) == [some |-> TRUE, val |-> x]

\* Option::unwrap_or giving u64::MAX for None.
unwrap_or_max(o, default) == IF o.some THEN o.val ELSE u64_digits([i \in 1..U64Digits |-> 15])

\* Option::unwrap_or
unwrap_or(o, default) == IF o.some THEN o.val ELSE default

\* The outcome of a call that can unwind: the value returned, or a panic.
Value(v) == [panic |-> FALSE, val |-> v]

Panicked == [panic |-> TRUE]

then(r, f(_)) == IF r.panic THEN r ELSE f(r)

\* a + b and a * b on u64: an overflow panics under overflow checks and
\* wraps without them.
checked(r) == IF r.overflow /\ overflow_checks THEN Panicked ELSE Value(r.val)

RECURSIVE Packet_value(_)
RECURSIVE Packet_version_sum(_)

\* Iterator::map over a slice: lazy, f is applied when the item is pulled.
iter_map(items, f) == [i \in 1..Len(items) |-> [f |-> f, arg |-> items[i]]]

\* Map::next on the item it pulls (a plain iterator yields the item itself).
Map_next(item) ==
    CASE item.f = "value" -> Packet_value(item.arg)
      [] item.f = "version_sum" -> Packet_version_sum(item.arg)
      [] OTHER -> Value(item.arg)

\* brownstone::try_build_iter: the next n items as an array, or None when
\* the iterator runs out before.
RECURSIVE try_build_iter(_, _, _)
try_build_iter(iter, n, buffer) ==
    IF n = 0 THEN Value([iter |-> iter, array |-> Some(buffer)])
    ELSE IF iter = <<>> THEN Value([iter |-> iter, array |-> None])
    ELSE then(Map_next(Head(iter)), LAMBDA x :
             try_build_iter(Tail(iter), n - 1, Append(buffer, x.val)))

\* Windows::next that replaces the last item of the buffer instead of
\* shifting the buffer.
Windows_advance_in_place(iter, buffer) ==
    IF iter = <<>>
    THEN Value([w |-> [iter |-> iter, state |-> [tag |-> "Done"]],
                item |-> Some(buffer)])
    ELSE then(Map_next(Head(iter)), LAMBDA next :
             Value([w |-> [iter |-> Tail(iter),
                           state |-> [tag |-> "Buffered",
                                      buffer |-> Append(SubSeq(buffer, 1, Len(buffer) - 1),
                                                        next.val)]],
                    item |-> Some(buffer)]))

\* Windows::next once it holds a buffer: the next item is pulled ahead and
\* the buffer is returned.
Windows_advance(iter, buffer) ==
    IF iter = <<>>
    THEN Value([w |-> [iter |-> iter, state |-> [tag |-> "Done"]],
                item |-> Some(buffer)])
    ELSE then(Map_next(Head(iter)), LAMBDA next :
             Value([w |-> [iter |-> Tail(iter),
                           state |-> [tag |-> "Buffered",
                                      buffer |-> Append(Tail(buffer), next.val)]],
                    item |-> Some(buffer)]))

\* Windows::next (library.rs) for windows of n items: w is [iter, state], iter
\* the items the source still holds; the result is the Windows after the call
\* and the item returned.
Windows_next(w, n) ==
    CASE w.state.tag = "Begin" ->
           then(try_build_iter(w.iter, n, <<>>), LAMBDA b :
               IF b.val.array.some
               THEN Windows_advance(b.val.iter, b.val.array.val)
               ELSE Value([w |-> [iter |-> b.val.iter, state |-> [tag |-> "Done"]],
                           item |-> None]))
      [] w.state.tag = "Buffered" -> Windows_advance(w.iter, w.state.buffer)
      [] OTHER -> Value([w |-> [iter |-> w.iter, state |-> [tag |-> "Done"]],
                         item |-> None])

\* usize::saturating_sub, and usize::saturating_add and usize::checked_add
\* of lengths far below usize::MAX.
saturating_sub(a, b) == IF a > b THEN a - b ELSE 0

saturating_add(a, b) == a + b

checked_add(a, b) == Some(a + b)

\* Iterator::size_hint of the source: both bounds the number of items left,
\* or a lower bound of 0 when the source does not know it.
iter_size_hint(iter, exact) ==
    [lower |-> IF exact THEN Len(iter) ELSE 0, upper |-> Some(Len(iter))]

\* Windows::size_hint with the upper bound of the Buffered state left as the
\* source gives it.
Windows_size_hint_of_source(w, n, exact) ==
    CASE w.state.tag = "Begin" ->
           [lower |-> saturating_sub(iter_size_hint(w.iter, exact).lower, n - 1),
            upper |-> Some(saturating_sub(iter_size_hint(w.iter, exact).upper.val, n - 1))]
      [] w.state.tag = "Buffered" ->
           [lower |-> saturating_add(iter_size_hint(w.iter, exact).lower, 1),
            upper |-> iter_size_hint(w.iter, exact).upper]
      [] OTHER -> [lower |-> 0, upper |-> Some(0)]

\* Windows::size_hint
Windows_size_hint(w, n, exact) ==
    CASE w.state.tag = "Begin" ->
           [lower |-> saturating_sub(iter_size_hint(w.iter, exact).lower, n - 1),
            upper |-> Some(saturating_sub(iter_size_hint(w.iter, exact).upper.val, n - 1))]
      [] w.state.tag = "Buffered" ->
           [lower |-> saturating_add(iter_size_hint(w.iter, exact).lower, 1),
            upper |-> checked_add(iter_size_hint(w.iter, exact).upper.val, 1)]
      [] OTHER -> [lower |-> 0, upper |-> Some(0)]

\* Filter::size_hint: the lower bound is unknown, the upper bound is the
\* inner iterator's.
Filter_size_hint(inner) == [lower |-> 0, upper |-> inner.upper]

\* Windows::len (ExactSizeIterator)
Windows_len(w, n) ==
    CASE w.state.tag = "Begin" -> saturating_sub(Len(w.iter), n - 1)
      [] w.state.tag = "Buffered" -> Len(w.iter) + 1
      [] OTHER -> 0

\* IterExt::streaming_windows
streaming_windows(items) == [iter |-> items, state |-> [tag |-> "Begin"]]

\* The comparison closures with their operands exchanged.
compare_exchanged(opcode, a, b) ==
    CASE opcode = "Greater" -> u64_lt(a, b)
      [] opcode = "Less" -> u64_lt(b, a)
      [] OTHER -> a = b

compare(opcode, a, b) ==
    CASE opcode = "Greater" -> u64_lt(b, a)
      [] opcode = "Less" -> u64_lt(a, b)
      [] OTHER -> a = b

\* all() that looks at the first window only.
windows_all_of_first(w, opcode) ==
    then(Windows_next(w, 2), LAMBDA r :
        IF ~r.val.item.some THEN Value(TRUE)
        ELSE Value(compare(opcode, r.val.item.val[1], r.val.item.val[2])))

\* operands.streaming_windows().all(|[a, b]| a OP b)
RECURSIVE windows_all(_, _)
windows_all(w, opcode) ==
    then(Windows_next(w, 2), LAMBDA r :
        IF ~r.val.item.some THEN Value(TRUE)
        ELSE IF ~compare(opcode, r.val.item.val[1], r.val.item.val[2]) THEN Value(FALSE)
        ELSE windows_all(r.val.w, opcode))

\* Iterator::sum: the fold of + from 0.
RECURSIVE iter_sum_from(_, _)
iter_sum_from(iter, acc) ==
    IF iter = <<>> THEN Value(acc)
    ELSE then(Map_next(Head(iter)), LAMBDA x :
             then(checked(u64_add(acc, x.val)), LAMBDA sum :
                 iter_sum_from(Tail(iter), sum.val)))

iter_sum(iter) == iter_sum_from(iter, U64Zero)

\* Iterator::product taken for Iterator::sum.
iter_product_as_sum(iter) == iter_sum(iter)

\* Iterator::product: the fold of * from 1.
RECURSIVE iter_product_from(_, _)
iter_product_from(iter, acc) ==
    IF iter = <<>> THEN Value(acc)
    ELSE then(Map_next(Head(iter)), LAMBDA x :
             then(checked(u64_mul(acc, x.val)), LAMBDA product :
                 iter_product_from(Tail(iter), product.val)))

iter_product(iter) == iter_product_from(iter, u64_from(1))

\* The items of an iterator, pulled to its end.
RECURSIVE iter_collect(_, _)
iter_collect(iter, items) ==
    IF iter = <<>> THEN Value(items)
    ELSE then(Map_next(Head(iter)), LAMBDA x :
             iter_collect(Tail(iter), Append(items, x.val)))

\* Iterator::min and Iterator::max
iter_min(iter) ==
    then(iter_collect(iter, <<>>), LAMBDA xs :
        Value(IF xs.val = <<>> THEN None
              ELSE Some(CHOOSE x \in {xs.val[i] : i \in 1..Len(xs.val)} :
                            \A i \in 1..Len(xs.val) : u64_le(x, xs.val[i]))))

iter_max(iter) ==
    then(iter_collect(iter, <<>>), LAMBDA xs :
        Value(IF xs.val = <<>> THEN None
              ELSE Some(CHOOSE x \in {xs.val[i] : i \in 1..Len(xs.val)} :
                            \A i \in 1..Len(xs.val) : u64_le(xs.val[i], x))))

\* Operator::version_sum over the versions of the operands alone.
Operator_version_sum_shallow(op) ==
    iter_sum(iter_map([i \in 1..Len(op.operands) |-> op.operands[i].version], "item"))

\* Operator::version_sum
Operator_version_sum(op) == iter_sum(iter_map(op.operands, "version_sum"))

\* Packet::version_sum without the version of an operator packet itself.
Packet_version_sum_of_data(p) ==
    IF p.data.tag = "Literal" THEN Value(p.version)
    ELSE Operator_version_sum(p.data.op)

\* Packet::version_sum, with PacketData::version_sum
Packet_version_sum(p) ==
    then(IF p.data.tag = "Literal" THEN Value(U64Zero)
         ELSE Operator_version_sum(p.data.op),
         LAMBDA data : checked(u64_add(p.version, data.val)))

\* Operator::value
Operator_value(op) ==
    let(iter_map(op.operands, "value"), LAMBDA values :
        CASE op.type_id = "Sum" -> iter_sum(values)
          [] op.type_id = "Product" -> iter_product(values)
          [] op.type_id = "Min" ->
               then(iter_min(values), LAMBDA m : Value(unwrap_or(m.val, U64Zero)))
          [] op.type_id = "Max" ->
               then(iter_max(values), LAMBDA m : Value(unwrap_or(m.val, U64Zero)))
          [] OTHER ->
               then(windows_all(streaming_windows(values), op.type_id), LAMBDA all :
                   Value(IF all.val THEN u64_from(1) ELSE U64Zero)))

\* Packet::value, with PacketData::value
Packet_value(p) ==
    IF p.data.tag = "Literal" THEN Value(p.data.value) ELSE Operator_value(p.data.op)

(***************************************************************************)
(* Counter (library.rs)                                                    *)
(***************************************************************************)

\* A Counter is its HashMap counts: a function from the keys it stores to
\* their counts, each a usize of 64 bits.

\* Counter::new
Counter_new == [k \in {} |-> U64Zero]

\* HashMap::len
Counter_len(counter) == Cardinality(DOMAIN counter)

\* HashMap::entry(value).or_insert(additional) on a key not yet stored.
Counter_insert(counter, value, additional) ==
    [k \in DOMAIN counter \cup {value} |->
        IF k = value THEN additional ELSE counter[k]]

\* Counter::add: *value += additional panics on overflow under overflow
\* checks and wraps without them.
Counter_add(counter, value, additional) ==
    IF u64_lt(U64Zero, additional)
    THEN IF value \in DOMAIN counter
         THEN then(checked(u64_add(counter[value], additional)), LAMBDA sum :
                  Value([counter EXCEPT ![value] = sum.val]))
         ELSE Value(Counter_insert(counter, value, additional))
    ELSE Value(counter)

\* Counter::add_one
Counter_add_one(counter, value) == Counter_add(counter, value, u64_from(1))

\* Extend<(T, usize)>::extend: for_each add, items a sequence of <<item, count>>.
RECURSIVE Counter_extend(_, _)
Counter_extend(counter, items) ==
    IF items = <<>> THEN Value(counter)
    ELSE then(Counter_add(counter, Head(items)[1], Head(items)[2]), LAMBDA grown :
             Counter_extend(grown.val, Tail(items)))

\* Extend<T>::extend: each item counts 1.
Counter_extend_items(counter, items) ==
    Counter_extend(counter, [i \in 1..Len(items) |-> <<items[i], u64_from(1)>>])

\* The orders in which Counter::into_iter (hash_map::IntoIter) can yield the
\* pairs of a counter: any.
RECURSIVE Counter_into_iter(_)
Counter_into_iter(counter) ==
    IF DOMAIN counter = {} THEN {<<>>}
    ELSE UNION {{<<<<k, counter[k]>>>> \o rest :
                    rest \in Counter_into_iter([j \in DOMAIN counter \ {k} |-> counter[j]])} :
                k \in DOMAIN counter}

\* The match of Counter::merge: the counter of more keys receives the other;
\* of two with as many keys, self receives when its capacity is at least
\* other's (self_capacity_ge).
Counter_receiver(self, other, self_capacity_ge) ==
    IF Counter_len(self) < Counter_len(other)
           \/ (Counter_len(self) = Counter_len(other) /\ ~self_capacity_ge)
    THEN [receiver |-> other, sender |-> self]
    ELSE [receiver |-> self, sender |-> other]

\* Counter::merge: receiver.extend(sender); order is the order in which the
\* sender yields its pairs, one of Counter_into_iter(sender).
Counter_merge(self, other, self_capacity_ge, order) ==
    Counter_extend(Counter_receiver(self, other, self_capacity_ge).receiver, order)

(***************************************************************************)
(* The inputs of the model                                                 *)
(***************************************************************************)

\* The published transmissions.
Hex_C200B40A82 ==
    <<"C", "2", "0", "0", "B", "4", "0", "A", "8", "2">>

Hex_04005AC33890 ==
    <<"0", "4", "0", "0", "5", "A", "C", "3", "3", "8", "9", "0">>

Hex_880086C3E88112 ==
    <<"8", "8", "0", "0", "8", "6", "C", "3", "E", "8", "8", "1", "1", "2">>

Hex_CE00C43D881120 ==
    <<"C", "E", "0", "0", "C", "4", "3", "D", "8", "8", "1", "1", "2", "0">>

Hex_D8005AC2A8F0 ==
    <<"D", "8", "0", "0", "5", "A", "C", "2", "A", "8", "F", "0">>

Hex_9C0141080250320F1802104A08 ==
    <<"9", "C", "0", "1", "4", "1", "0", "8", "0", "2", "5", "0", "3", "2", "0", "F", "1", "8", "0", "2", "1", "0", "4", "A", "0", "8">>

Hex_8A004A801A8002F478 ==
    <<"8", "A", "0", "0", "4", "A", "8", "0", "1", "A", "8", "0", "0", "2", "F", "4", "7", "8">>

Hex_620080001611562C8802118E34 ==
    <<"6", "2", "0", "0", "8", "0", "0", "0", "1", "6", "1", "1", "5", "6", "2", "C", "8", "8", "0", "2", "1", "1", "8", "E", "3", "4">>

Hex_C0015000016115A2E0802F182340 ==
    <<"C", "0", "0", "1", "5", "0", "0", "0", "0", "1", "6", "1", "1", "5", "A", "2", "E", "0", "8", "0", "2", "F", "1", "8", "2", "3", "4", "0">>

Hex_A0016C880162017C3686B18A3D4780 ==
    <<"A", "0", "0", "1", "6", "C", "8", "8", "0", "1", "6", "2", "0", "1", "7", "C", "3", "6", "8", "6", "B", "1", "8", "A", "3", "D", "4", "7", "8", "0">>

\* The transmission 04005AC33890 with its first digit written as a sign.
Hex_Plus4005AC33890 ==
    <<"+", "4", "0", "0", "5", "A", "C", "3", "3", "8", "9", "0">>

Fixtures ==
    {Hex_C200B40A82, Hex_04005AC33890, Hex_880086C3E88112, Hex_CE00C43D881120,
     Hex_D8005AC2A8F0, Hex_9C0141080250320F1802104A08, Hex_8A004A801A8002F478,
     Hex_620080001611562C8802118E34, Hex_C0015000016115A2E0802F182340,
     Hex_A0016C880162017C3686B18A3D4780, Hex_Plus4005AC33890}

\* Short strings over hex digits, other characters and whitespace.
MaxTextLen == 3

TextAlphabet == {"0", "a", "F", "g", "+", "-", EAcute, " ", "\n"}

Texts == UNION {[1..k -> TextAlphabet] : k \in 0..MaxTextLen}

\* Transmissions built from their fields: v as n bits, most significant first.
Bits(v, n) == [i \in 1..n |-> (v \div Pow2(n - i)) % 2]

RECURSIVE GroupBits(_)
GroupBits(groups) ==
    IF groups = <<>> THEN <<>>
    ELSE <<IF Len(groups) > 1 THEN 1 ELSE 0>> \o Bits(Head(groups), 4)
         \o GroupBits(Tail(groups))

LiteralBits(version, groups) == Bits(version, 3) \o Bits(4, 3) \o GroupBits(groups)

OperatorBits(version, type_id, flag, n, body) ==
    Bits(version, 3) \o Bits(type_id, 3) \o <<flag>>
    \o Bits(n, IF flag = 0 THEN 15 ELSE 11) \o body

\* The sub-packets the bodies are made of: two literals, an operator of one
\* packet, an operator of exactly 11 bits, and an operator whose literal
\* overruns its 5 bits.
SubPackets ==
    {LiteralBits(1, <<1>>),
     LiteralBits(2, <<1, 2>>),
     OperatorBits(3, 1, 1, 1, LiteralBits(0, <<3>>)),
     OperatorBits(4, 2, 0, 11, LiteralBits(5, <<4>>)),
     OperatorBits(5, 0, 0, 5, LiteralBits(6, <<7>>))}

MaxSubPackets == 2

Bodies == UNION {[1..k -> SubPackets] : k \in 0..MaxSubPackets}

RECURSIVE Concat(_)
Concat(parts) == IF parts = <<>> THEN <<>> ELSE Head(parts) \o Concat(Tail(parts))

\* The lengths an operator over body declares: the bits (flag 0) or the
\* number (flag 1) of its first k sub-packets, or one off.
Declared(body, flag) ==
    {n \in {(IF flag = 0 THEN Len(Concat(SubSeq(body, 1, k))) ELSE k) + d :
               k \in 0..Len(body), d \in {-1, 0, 1}} : n >= 0}

TopTypes == {6}

TopPackets ==
    SubPackets \cup
    UNION {{OperatorBits(7, t, flag, n, Concat(body)) :
               t \in TopTypes, n \in Declared(body, flag)} :
           body \in Bodies, flag \in {0, 1}}

\* What follows a packet of l bits: zero bits to the end of the byte, or
\* a last byte whose first or last bit after the packet is a 1.
Paddings(l) ==
    LET k == (8 - (l % 8)) % 8
        m == IF k = 0 THEN 8 ELSE k
    IN  {[i \in 1..k |-> 0]}
        \cup {[i \in 1..m |-> IF i = j THEN 1 ELSE 0] : j \in {1, m}}

HexChars ==
    <<"0", "1", "2", "3", "4", "5", "6", "7", "8", "9", "A", "B", "C", "D", "E", "F">>

\* The hex digits of a bit string of whole bytes.
ToHex(bits) ==
    [i \in 1..(Len(bits) \div 4) |->
        HexChars[8 * bits[4 * i - 3] + 4 * bits[4 * i - 2]
                 + 2 * bits[4 * i - 1] + bits[4 * i] + 1]]

Transmissions ==
    UNION {{ToHex(p \o pad) : pad \in Paddings(Len(p))} : p \in TopPackets}

\* Literals of every number of groups, their payloads all ones, counting
\* up, or a one followed by zeroes.
MaxGroups == 17

GroupPatterns(k) ==
    {[i \in 1..k |-> 15], [i \in 1..k |-> i % 16], [i \in 1..k |-> IF i = 1 THEN 1 ELSE 0]}

LongLiterals ==
    UNION {{LiteralBits(5, groups) : groups \in GroupPatterns(k)} : k \in 1..MaxGroups}

\* The operands of the operators to evaluate: the literals 3 and 2^64 - 1,
\* the sum of 1 and 2, and a minimum of no operand.
OperandPackets ==
    {LiteralBits(1, <<3>>),
     LiteralBits(2, [i \in 1..16 |-> 15]),
     OperatorBits(3, 0, 0, 22, LiteralBits(1, <<1>>) \o LiteralBits(1, <<2>>)),
     OperatorBits(4, 2, 1, 0, <<>>)}

MaxOperands == 2

OperandLists == UNION {[1..k -> OperandPackets] : k \in 0..MaxOperands}

OperatorTypes == {0, 1, 2, 3, 5, 6, 7}

OperatorPackets ==
    {OperatorBits(6, t, 1, Len(l), Concat(l)) : t \in OperatorTypes, l \in OperandLists}

\* A packet followed by zero bits to the end of a byte, one at least.
ZeroPadded(p) == p \o [i \in 1..(8 - (Len(p) % 8)) |-> 0]

\* The operators of a declared bit length of 0.
EmptyOperators == {OperatorBits(5, t, 0, 0, <<>>) : t \in OperatorTypes}

\* The comparisons of three literals.
ChainValues == {1, 2, 3}

Chains ==
    {OperatorBits(6, t, 1, 3, LiteralBits(1, <<a>>) \o LiteralBits(1, <<b>>)
                                  \o LiteralBits(1, <<c>>)) :
        t \in {5, 6, 7}, a \in ChainValues, b \in ChainValues, c \in ChainValues}

Evaluations ==
    {ToHex(ZeroPadded(p)) :
        p \in LongLiterals \cup OperatorPackets \cup EmptyOperators \cup Chains}

Inputs == Fixtures \cup Texts \cup Transmissions \cup Evaluations

(***************************************************************************)
(* One decode: part1 / part2 on one input                                  *)
(***************************************************************************)

Pending == [ok |-> FALSE, fail |-> "Pending"]

\* No iteration of streaming_windows is under way, and no call of
\* recreate_context.
NoCall == [called |-> FALSE]

NoWindows ==
    /\ source = <<>>
    /\ N = 0
    /\ exact_size = TRUE
    /\ windows = NoCall
    /\ yielded = <<>>
    /\ returned = NoCall
    /\ hint = NoCall

NoContext ==
    /\ original_input = NoCall
    /\ tail_input = NoCall
    /\ location = NoCall

\* No decode runs; the build is any.
IdleDecode ==
    /\ input = [base |-> 0, chars |-> <<>>]
    /\ pc = "idle"
    /\ hex = Pending
    /\ packet = Pending
    /\ answer = Pending

NoDecode ==
    /\ IdleDecode
    /\ overflow_checks = FALSE

NoCursor ==
    /\ cursor_bytes = <<>>
    /\ cursor = NoCall
    /\ taken = NoCall

NoCell ==
    /\ cell_inhabited = FALSE
    /\ cell_value = NoCall
    /\ cell_reads = 0
    /\ takers = <<>>

NoCounter ==
    /\ counters = NoCall
    /\ added = NoCall
    /\ counter_ops = 0
    /\ counter_panic = FALSE

NoPar ==
    /\ par_initial = NoCall
    /\ par_items = NoCall
    /\ this = NoCall
    /\ tasks = <<>>
    /\ par_result = NoCall
    /\ par_panic = FALSE

NoOks ==
    /\ oks_source = <<>>
    /\ adapter = NoCall
    /\ calls = <<>>
    /\ oks_result = NoCall

\* Only one of the state machines runs.
OnlyDecode == NoWindows /\ NoContext /\ NoCursor /\ NoCell /\ NoCounter /\ NoPar /\ NoOks

OnlyWindows == NoDecode /\ NoContext /\ NoCursor /\ NoCell /\ NoCounter /\ NoPar /\ NoOks

OnlyContext == NoDecode /\ NoWindows /\ NoCursor /\ NoCell /\ NoCounter /\ NoPar /\ NoOks

OnlyCursor == NoDecode /\ NoWindows /\ NoContext /\ NoCell /\ NoCounter /\ NoPar /\ NoOks

OnlyCell == NoDecode /\ NoWindows /\ NoContext /\ NoCursor /\ NoCounter /\ NoPar /\ NoOks

OnlyCounter == IdleDecode /\ NoWindows /\ NoContext /\ NoCursor /\ NoCell /\ NoPar /\ NoOks

OnlyPar == IdleDecode /\ NoWindows /\ NoContext /\ NoCursor /\ NoCell /\ NoCounter /\ NoOks

OnlyOks == NoDecode /\ NoWindows /\ NoContext /\ NoCursor /\ NoCell /\ NoCounter /\ NoPar

Init ==
    /\ input \in {[base |-> 0, chars |-> cs] : cs \in Inputs}
    /\ overflow_checks \in BOOLEAN
    /\ pc = "hex"
    /\ hex = Pending
    /\ packet = Pending
    /\ answer = Pending
    /\ OnlyDecode

\* final_parse_hex_packet, first line: the hex lexer; its error ends the decode.
FinalParseHex ==
    /\ pc = "hex"
    /\ hex' = final_parse_hex(input)
    /\ pc' = IF hex'.ok THEN "bits" ELSE "done"
    /\ answer' = IF hex'.ok THEN answer ELSE [ok |-> FALSE, fail |-> hex'.fail]
    /\ UNCHANGED <<input, overflow_checks, packet, beside_decode>>

\* final_parse_hex_packet, second line: the bit parser on the bytes.
FinalParseTopPacket ==
    /\ pc = "bits"
    /\ packet' = final_parse_top_packet(hex.val)
    /\ pc' = IF packet'.ok THEN "parsed" ELSE "done"
    /\ answer' = IF packet'.ok THEN answer ELSE [ok |-> FALSE, fail |-> packet'.fail]
    /\ UNCHANGED <<input, overflow_checks, hex, beside_decode>>

\* The answer of a part: the number, or the panic that ended its evaluation.
Answer(part, r) ==
    IF r.panic THEN [ok |-> FALSE, fail |-> "Panic"]
    ELSE [ok |-> TRUE, part |-> part, val |-> r.val]

\* part1: the version sum of the packet.
Part1 ==
    /\ pc = "parsed"
    /\ answer' = Answer(1, Packet_version_sum(packet.val))
    /\ pc' = "done"
    /\ UNCHANGED <<input, overflow_checks, hex, packet, beside_decode>>

\* part2: the value of the packet.
Part2 ==
    /\ pc = "parsed"
    /\ answer' = Answer(2, Packet_value(packet.val))
    /\ pc' = "done"
    /\ UNCHANGED <<input, overflow_checks, hex, packet, beside_decode>>

Next == FinalParseHex \/ FinalParseTopPacket \/ Part1 \/ Part2

Spec == Init /\ [][Next]_vars

\* A phase that has begun ends: each phase is one call, which returns or
\* unwinds, and takes the decode to a later phase.
Proceed == pc # "done" /\ pc' \in {"bits", "parsed", "done"} /\ pc' # pc

FairSpec == Spec /\ WF_pc(Proceed)

(***************************************************************************)
(* One iteration of streaming_windows::<N>()                               *)
(***************************************************************************)

MaxItems == 6

MaxWindow == 3

\* (0..l).streaming_windows::<N>(), as the tests of library.rs build it.
InitWindows ==
    /\ source \in {[i \in 1..l |-> i - 1] : l \in 0..MaxItems}
    /\ N \in 1..MaxWindow
    /\ exact_size \in BOOLEAN
    /\ windows = streaming_windows(iter_map(source, "item"))
    /\ yielded = <<>>
    /\ returned = NoCall
    /\ hint = NoCall
    /\ OnlyWindows

\* windows.next(); once it has returned None it goes on returning None.
WindowsNext ==
    /\ windows' = Windows_next(windows, N).val.w
    /\ returned' = Windows_next(windows, N).val.item
    /\ yielded' = IF returned'.some THEN Append(yielded, returned'.val) ELSE yielded
    /\ hint' = NoCall
    /\ UNCHANGED <<source, N, exact_size, beside_windows>>

\* windows.size_hint()
WindowsSizeHint ==
    /\ hint' = [call |-> "size_hint", val |-> Windows_size_hint(windows, N, exact_size)]
    /\ UNCHANGED <<source, N, exact_size, windows, yielded, returned, beside_windows>>

\* windows.len(), which an ExactSizeIterator source provides.
WindowsLen ==
    /\ exact_size
    /\ hint' = [call |-> "len", val |-> Windows_len(windows, N)]
    /\ UNCHANGED <<source, N, exact_size, windows, yielded, returned, beside_windows>>

\* size_hint() of windows.filter(|_| true), whose next() is windows.next().
FilterSizeHint ==
    /\ hint' = [call |-> "filter",
                val |-> Filter_size_hint(Windows_size_hint(windows, N, exact_size))]
    /\ UNCHANGED <<source, N, exact_size, windows, yielded, returned, beside_windows>>

NextWindows == WindowsNext \/ WindowsSizeHint \/ WindowsLen \/ FilterSizeHint

SpecWindows == InitWindows /\ [][NextWindows]_vars

(***************************************************************************)
(* One call of BitErrorLocation::recreate_context                          *)
(***************************************************************************)

MaxBytes == 3

\* The cursor n bits after in, as nom::bits::complete::take leaves it.
Advance(in, n) ==
    [buf |-> SubSeq(in.buf, ((n + in.off) \div 8) + 1, Len(in.buf)),
     off |-> (n + in.off) % 8]

\* A cursor into a buffer and the cursor some bits after it.
InitContext ==
    /\ original_input \in {[buf |-> [i \in 1..l |-> 0], off |-> o] :
                              l \in 1..MaxBytes, o \in 0..7}
    /\ tail_input \in {Advance(original_input, n) : n \in 0..len(original_input)}
    /\ location = NoCall
    /\ OnlyContext

RecreateContext ==
    /\ location' = recreate_context(original_input, tail_input)
    /\ UNCHANGED <<original_input, tail_input, beside_context>>

NextContext == RecreateContext

SpecContext == InitContext /\ [][NextContext]_vars

(***************************************************************************)
(* A sequence of take_bits / take_bit calls on one cursor                  *)
(***************************************************************************)

\* The bytes a buffer is made of.
ByteValues == {0, 165, 255}

Buffers == UNION {[1..l -> ByteValues] : l \in 0..MaxBytes}

\* The N of the take_bits::<T, N> of day16.rs.
TakeSizes == {1, 3, 4, 11, 15}

\* A cursor at the start of a buffer, as bits() hands it to the parser.
InitCursor ==
    /\ cursor_bytes \in Buffers
    /\ cursor = [buf |-> cursor_bytes, off |-> 0]
    /\ taken = NoCall
    /\ OnlyCursor

\* let (input, value) = take_bits::<T, N>(input)?: on a failure the caller
\* returns with its cursor as it was.
TakeBits ==
    \E n \in TakeSizes :
        /\ taken' = [call |-> "take_bits", n |-> n, from |-> cursor,
                     result |-> take_bits(n, cursor)]
        /\ cursor' = IF taken'.result.ok THEN taken'.result.tail ELSE cursor
        /\ UNCHANGED <<cursor_bytes, beside_cursor>>

\* let (input, bit) = take_bit(input)?
TakeBit ==
    /\ taken' = [call |-> "take_bit", n |-> 1, from |-> cursor,
                 result |-> take_bit(cursor)]
    /\ cursor' = IF taken'.result.ok THEN taken'.result.tail ELSE cursor
    /\ UNCHANGED <<cursor_bytes, beside_cursor>>

NextCursor == TakeBits \/ TakeBit

SpecCursor == InitCursor /\ [][NextCursor]_vars

(***************************************************************************)
(* Threads calling AtomicCell::take on one cell                            *)
(***************************************************************************)

\* MaybeUninit::uninit(): the slot holds no value.
Uninit == [init |-> FALSE]

\* AtomicCell::empty
AtomicCell_empty == [inhabited |-> FALSE, value |-> Uninit]

\* AtomicCell::new
AtomicCell_new(v) == [inhabited |-> TRUE, value |-> [init |-> TRUE, val |-> v]]

\* An atomic load in place of the swap: the flag is left as it is.
AtomicBool_load(flag, new) == [old |-> flag, now |-> flag]

\* AtomicBool::swap: one atomic read-modify-write, whatever the ordering;
\* the swaps of one flag are totally ordered and each reads the value the
\* one before it stored.
AtomicBool_swap(flag, new) == [old |-> flag, now |-> new]

\* as_ptr().read() of the slot: the value moved out, or whatever the
\* uninitialized memory holds.
Slot_read(slot) == IF slot.init THEN {slot.val} ELSE {"uninitialized"}

MaxThreads == 3

MaxTakes == 2

Threads == 1..MaxThreads

\* A cell made by new("v") or by empty(), shared by the threads; the write of
\* new() happens before the threads start.
InitCell ==
    /\ \E c \in {AtomicCell_new("v"), AtomicCell_empty} :
           /\ cell_inhabited = c.inhabited
           /\ cell_value = c.value
    /\ cell_reads = 0
    /\ takers = [t \in Threads |-> [pc |-> "idle", calls |-> MaxTakes, results |-> <<>>]]
    /\ OnlyCell

\* take(), the swap: on false the call returns None.
TakeSwap(t) ==
    /\ takers[t].pc = "idle"
    /\ takers[t].calls > 0
    /\ cell_inhabited' = AtomicBool_swap(cell_inhabited, FALSE).now
    /\ takers' = [takers EXCEPT ![t] =
                     IF AtomicBool_swap(cell_inhabited, FALSE).old
                     THEN [@ EXCEPT !.pc = "read", !.calls = @ - 1]
                     ELSE [@ EXCEPT !.calls = @ - 1, !.results = Append(@, None)]]
    /\ UNCHANGED <<cell_value, cell_reads, beside_cell>>

\* take(), the read of the slot after the swap gave true.
TakeRead(t) ==
    /\ takers[t].pc = "read"
    /\ \E v \in Slot_read(cell_value) :
           takers' = [takers EXCEPT ![t] =
                         [@ EXCEPT !.pc = "idle", !.results = Append(@, Some(v))]]
    /\ cell_reads' = cell_reads + 1
    /\ UNCHANGED <<cell_inhabited, cell_value, beside_cell>>

NextCell == \E t \in Threads : TakeSwap(t) \/ TakeRead(t)

SpecCell == InitCell /\ [][NextCell]_vars

(***************************************************************************)
(* Counters under add, add_one, extend and merge                           *)
(***************************************************************************)

Keys == {"a", "b"}

\* usize::MAX
U64Max == u64_digits([i \in 1..U64Digits |-> 15])

Amounts == {U64Zero, u64_from(1), U64Max}

MaxOps == 3

MaxExtend == 2

\* The items of an extend: sequences of <<item, count>>.
ItemLists ==
    UNION {[1..n -> Keys \X (Amounts \ {U64Zero})] : n \in 0..MaxExtend}

KeyLists == UNION {[1..n -> Keys] : n \in 0..MaxExtend}

Counters == {1, 2}

\* Nothing added yet: how many times each amount was added for each key.
NothingAdded == [k \in Keys |-> [a \in Amounts |-> 0]]

Credit(g, value, additional) == [g EXCEPT ![value][additional] = @ + 1]

RECURSIVE CreditAll(_, _)
CreditAll(g, items) ==
    IF items = <<>> THEN g
    ELSE CreditAll(Credit(g, Head(items)[1], Head(items)[2]), Tail(items))

CreditBoth(g, h) == [k \in Keys |-> [a \in Amounts |-> g[k][a] + h[k][a]]]

InitCounter ==
    /\ overflow_checks \in BOOLEAN
    /\ counters = [c \in Counters |-> Counter_new]
    /\ added = [c \in Counters |-> NothingAdded]
    /\ counter_ops = 0
    /\ counter_panic = FALSE
    /\ OnlyCounter

\* An operation on counter c ends with result r, or unwinds.
CounterStep(c, r, g) ==
    /\ ~counter_panic
    /\ counter_ops < MaxOps
    /\ counter_ops' = counter_ops + 1
    /\ counter_panic' = r.panic
    /\ counters' = IF r.panic THEN counters ELSE [counters EXCEPT ![c] = r.val]
    /\ added' = [added EXCEPT ![c] = g]
    /\ UNCHANGED beside_counter

CounterAdd ==
    \E c \in Counters, value \in Keys, additional \in Amounts :
        CounterStep(c, Counter_add(counters[c], value, additional),
                    Credit(added[c], value, additional))

CounterAddOne ==
    \E c \in Counters, value \in Keys :
        CounterStep(c, Counter_add_one(counters[c], value),
                    Credit(added[c], value, u64_from(1)))

CounterExtend ==
    \E c \in Counters, items \in ItemLists :
        CounterStep(c, Counter_extend(counters[c], items), CreditAll(added[c], items))

CounterExtendItems ==
    \E c \in Counters, items \in KeyLists :
        CounterStep(c, Counter_extend_items(counters[c], items),
                    CreditAll(added[c], [i \in 1..Len(items) |-> <<items[i], u64_from(1)>>]))

\* counters[1] = counters[1].merge(counters[2]), a new counter in place of
\* the one moved.
CounterMerge ==
    \E self_capacity_ge \in BOOLEAN :
        \E order \in Counter_into_iter(
                         Counter_receiver(counters[1], counters[2], self_capacity_ge).sender) :
            LET r == Counter_merge(counters[1], counters[2], self_capacity_ge, order)
            IN  /\ ~counter_panic
                /\ counter_ops < MaxOps
                /\ counter_ops' = counter_ops + 1
                /\ counter_panic' = r.panic
                /\ counters' = IF r.panic THEN counters
                               ELSE [c \in Counters |-> IF c = 1 THEN r.val ELSE Counter_new]
                /\ added' = [c \in Counters |->
                                IF c = 1 THEN CreditBoth(added[1], added[2]) ELSE NothingAdded]
                /\ UNCHANGED beside_counter

\* counters[2] += counters[1]: *self = mem::take(self).merge(rhs).
CounterAddAssign ==
    \E self_capacity_ge \in BOOLEAN :
        \E order \in Counter_into_iter(
                         Counter_receiver(counters[2], counters[1], self_capacity_ge).sender) :
            LET r == Counter_merge(counters[2], counters[1], self_capacity_ge, order)
            IN  /\ ~counter_panic
                /\ counter_ops < MaxOps
                /\ counter_ops' = counter_ops + 1
                /\ counter_panic' = r.panic
                /\ counters' = IF r.panic THEN counters
                               ELSE [c \in Counters |-> IF c = 2 THEN r.val ELSE Counter_new]
                /\ added' = [c \in Counters |->
                                IF c = 2 THEN CreditBoth(added[2], added[1]) ELSE NothingAdded]
                /\ UNCHANGED beside_counter

NextCounter ==
    \/ CounterAdd
    \/ CounterAddOne
    \/ CounterExtend
    \/ CounterExtendItems
    \/ CounterMerge
    \/ CounterAddAssign

SpecCounter == InitCounter /\ [][NextCounter]_vars

(***************************************************************************)
(* Counter::par_extend                                                     *)
(***************************************************************************)

MaxParItems == 2

MaxTasks == 3

\* The counters par_extend is called on.
ParCounters ==
    {Counter_new,
     [k \in {"a"} |-> u64_from(1)],
     [k \in Keys |-> u64_from(1)],
     [k \in {"a"} |-> U64Max]}

\* The items of a par_extend: sequences of <<item, count>>.
ParItemLists == UNION {[1..n -> Keys \X Amounts] : n \in 0..MaxParItems}

\* The ways the parallel iterator splits items into n consecutive parts, one a
\* leaf of the fold, empty parts included.
RECURSIVE Splits(_, _)
Splits(items, n) ==
    IF n = 1 THEN {<<items>>}
    ELSE UNION {{<<SubSeq(items, 1, i)>> \o rest :
                    rest \in Splits(SubSeq(items, i + 1, Len(items)), n - 1)} :
                i \in 0..Len(items)}

\* Option::unwrap_or_default on the Counter taken from the cell.
unwrap_or_default(o) == IF o.some THEN o.val ELSE Counter_new

\* let this = AtomicCell::new(mem::take(self)), and the parallel iterator
\* split into its leaves; every leaf starts by calling the identity of fold.
InitPar ==
    /\ overflow_checks \in BOOLEAN
    /\ par_initial \in ParCounters
    /\ par_items \in ParItemLists
    /\ this = AtomicCell_new(par_initial)
    /\ \E n \in 1..MaxTasks :
           \E split \in Splits(par_items, n) :
               tasks = [t \in 1..n |->
                           [pc |-> "identity", items |-> split[t], counter |-> Counter_new]]
    /\ par_result = NoCall
    /\ par_panic = FALSE
    /\ OnlyPar

\* The identity of fold, this.take(): the swap; on false the leaf starts from
\* unwrap_or_default(None).
ParTakeSwap ==
    \E t \in 1..Len(tasks) :
        /\ ~par_panic
        /\ tasks[t].pc = "identity"
        /\ this' = [this EXCEPT !.inhabited = AtomicBool_swap(this.inhabited, FALSE).now]
        /\ tasks' = [tasks EXCEPT ![t] =
                        IF AtomicBool_swap(this.inhabited, FALSE).old
                        THEN [@ EXCEPT !.pc = "read"]
                        ELSE [@ EXCEPT !.pc = "fold", !.counter = unwrap_or_default(None)]]
        /\ UNCHANGED <<par_initial, par_items, par_result, par_panic, beside_par>>

\* this.take(), the read of the slot after the swap gave true.
ParTakeRead ==
    \E t \in 1..Len(tasks) :
        /\ ~par_panic
        /\ tasks[t].pc = "read"
        /\ \E v \in Slot_read(this.value) :
               tasks' = [tasks EXCEPT ![t] =
                            [@ EXCEPT !.pc = "fold", !.counter = unwrap_or_default(Some(v))]]
        /\ UNCHANGED <<par_initial, par_items, this, par_result, par_panic, beside_par>>

\* The fold closure on the next item of a leaf: counter.add(item, count).
ParFold ==
    \E t \in 1..Len(tasks) :
        /\ ~par_panic
        /\ tasks[t].pc = "fold"
        /\ tasks[t].items # <<>>
        /\ LET r == Counter_add(tasks[t].counter, Head(tasks[t].items)[1], Head(tasks[t].items)[2])
           IN  /\ par_panic' = r.panic
               /\ tasks' = IF r.panic THEN tasks
                           ELSE [tasks EXCEPT ![t] =
                                    [@ EXCEPT !.items = Tail(@), !.counter = r.val]]
        /\ UNCHANGED <<par_initial, par_items, this, par_result, beside_par>>

\* reduce at a leaf whose fold is complete: Counter::merge(Counter::new(), counter).
ParReduceLeaf ==
    \E t \in 1..Len(tasks) :
        /\ ~par_panic
        /\ tasks[t].pc = "fold"
        /\ tasks[t].items = <<>>
        /\ \E self_capacity_ge \in BOOLEAN :
               \E order \in Counter_into_iter(
                                Counter_receiver(Counter_new, tasks[t].counter,
                                                 self_capacity_ge).sender) :
                   LET r == Counter_merge(Counter_new, tasks[t].counter, self_capacity_ge, order)
                   IN  /\ par_panic' = r.panic
                       /\ tasks' = IF r.panic THEN tasks
                                   ELSE [tasks EXCEPT ![t] =
                                            [@ EXCEPT !.pc = "reduced", !.counter = r.val]]
        /\ UNCHANGED <<par_initial, par_items, this, par_result, beside_par>>

\* reduce of two adjacent results: Counter::merge(left, right).
ParReduceJoin ==
    \E t \in 1..(Len(tasks) - 1) :
        /\ ~par_panic
        /\ tasks[t].pc = "reduced"
        /\ tasks[t + 1].pc = "reduced"
        /\ \E self_capacity_ge \in BOOLEAN :
               \E order \in Counter_into_iter(
                                Counter_receiver(tasks[t].counter, tasks[t + 1].counter,
                                                 self_capacity_ge).sender) :
                   LET r == Counter_merge(tasks[t].counter, tasks[t + 1].counter,
                                          self_capacity_ge, order)
                   IN  /\ par_panic' = r.panic
                       /\ tasks' = IF r.panic THEN tasks
                                   ELSE SubSeq(tasks, 1, t - 1)
                                            \o <<[tasks[t] EXCEPT !.counter = r.val]>>
                                            \o SubSeq(tasks, t + 2, Len(tasks))
        /\ UNCHANGED <<par_initial, par_items, this, par_result, beside_par>>

\* *self = the result of the reduction.
ParAssign ==
    /\ ~par_panic
    /\ par_result = NoCall
    /\ Len(tasks) = 1
    /\ tasks[1].pc = "reduced"
    /\ par_result' = Some(tasks[1].counter)
    /\ UNCHANGED <<par_initial, par_items, this, tasks, par_panic, beside_par>>

NextPar ==
    \/ ParTakeSwap
    \/ ParTakeRead
    \/ ParFold
    \/ ParReduceLeaf
    \/ ParReduceJoin
    \/ ParAssign

SpecPar == InitPar /\ [][NextPar]_vars

(***************************************************************************)
(* IterExt::use_oks                                                        *)
(***************************************************************************)

\* Result<T, E>
ResultOk(v) == [is_ok |-> TRUE, val |-> v]

ResultErr(e) == [is_ok |-> FALSE, err |-> e]

\* Iterator::next of the source: the source is the sequence of what its
\* next() returns, Some(item) or None (an iterator that is not fused returns
\* items after a None), and None ever after.
Source_next(iter) ==
    IF iter = <<>> THEN [iter |-> iter, item |-> None]
    ELSE [iter |-> Tail(iter), item |-> Head(iter)]

\* UseOksAdapter::next without the test of self.error.
UseOksAdapter_next_unchecked(a) ==
    LET pull == Source_next(a.iter)
    IN  IF ~pull.item.some
        THEN [adapter |-> [a EXCEPT !.iter = pull.iter], item |-> None, pull |-> Some(pull.item)]
        ELSE IF pull.item.val.is_ok
        THEN [adapter |-> [a EXCEPT !.iter = pull.iter],
              item |-> Some(pull.item.val.val), pull |-> Some(pull.item)]
        ELSE [adapter |-> [iter |-> pull.iter, error |-> ResultErr(pull.item.val.err)],
              item |-> None, pull |-> Some(pull.item)]

\* UseOksAdapter::next: the adapter after the call, the item returned and what
\* the call pulled from the source (None when it did not pull).
UseOksAdapter_next(a) ==
    IF ~a.error.is_ok
    THEN [adapter |-> a, item |-> None, pull |-> None]
    ELSE LET pull == Source_next(a.iter)
         IN  IF ~pull.item.some
             THEN [adapter |-> [a EXCEPT !.iter = pull.iter], item |-> None,
                   pull |-> Some(pull.item)]
             ELSE IF pull.item.val.is_ok
             THEN [adapter |-> [a EXCEPT !.iter = pull.iter],
                   item |-> Some(pull.item.val.val), pull |-> Some(pull.item)]
             ELSE [adapter |-> [iter |-> pull.iter, error |-> ResultErr(pull.item.val.err)],
                   item |-> None, pull |-> Some(pull.item)]

\* err.map(|()| value)
use_oks_return(err, value) == IF err.is_ok THEN ResultOk(value) ELSE err

MaxSource == 3

MaxCalls == 4

SourceItems ==
    {None, Some(ResultOk(1)), Some(ResultOk(2)), Some(ResultErr("e1")), Some(ResultErr("e2"))}

Sources == UNION {[1..n -> SourceItems] : n \in 0..MaxSource}

\* The value body returns: the items the adapter gave it.
BodyValue == [i \in 1..Len(calls) |-> calls[i].item]

\* let mut err = Ok(()); body(UseOksAdapter { iter: self, error: &mut err })
InitOks ==
    /\ oks_source \in Sources
    /\ adapter = [iter |-> oks_source, error |-> ResultOk("unit")]
    /\ calls = <<>>
    /\ oks_result = NoCall
    /\ OnlyOks

\* body calls next() on the adapter.
BodyNext ==
    /\ oks_result = NoCall
    /\ Len(calls) < MaxCalls
    /\ adapter' = UseOksAdapter_next(adapter).adapter
    /\ calls' = Append(calls, [item |-> UseOksAdapter_next(adapter).item,
                               pull |-> UseOksAdapter_next(adapter).pull])
    /\ UNCHANGED <<oks_source, oks_result, beside_oks>>

\* body returns and use_oks returns err.map(|()| value).
BodyReturn ==
    /\ oks_result = NoCall
    /\ oks_result' = use_oks_return(adapter.error, BodyValue)
    /\ UNCHANGED <<oks_source, adapter, calls, beside_oks>>

NextOks == BodyNext \/ BodyReturn

SpecOks == InitOks /\ [][NextOks]_vars

(***************************************************************************)
(* Properties                                                              *)
(***************************************************************************)

\* The opcode and the declared length of an operator packet body at in.
OperatorHeader(in) ==
    and_then(parse_opcode(in), LAMBDA opcode : parse_operator_length(opcode.tail))

\* The cursor n bits after in.
Skip(in, n) ==
    [buf |-> SubSeq(in.buf, ((n + in.off) \div 8) + 1, Len(in.buf)),
     off |-> (n + in.off) % 8]

RECURSIVE SumPacketLen(_)
SumPacketLen(log) ==
    IF log = <<>> THEN 0 ELSE Head(log).packet_len + SumPacketLen(Tail(log))

\* The cursors at which the parse of a packet at in calls
\* parse_operator_packet: after the version of the packet itself when its
\* type is not 4, and within each sub-packet its loop goes on to parse (the
\* ones it logged and the one it was at when it ended).
RECURSIVE OperatorCalls(_)
OperatorCallsOf(in, h, r) ==
    {in} \cup
    (IF h.ok
     THEN UNION {OperatorCalls(Skip(h.tail, SumPacketLen(SubSeq(r.log, 1, i)))) :
                    i \in 0..Len(r.log)}
     ELSE {})

OperatorCalls(in) ==
    IF len(in) < 6 \/ bits_value(in.buf, in.off + 3, 3) = 4 THEN {}
    ELSE OperatorCallsOf(Skip(in, 3), OperatorHeader(Skip(in, 3)),
                         parse_operator_packet(Skip(in, 3)))

\* The cursors at which the decode of the bytes calls parse_operator_packet.
Cursors == IF pc = "bits" THEN OperatorCalls([buf |-> hex.val, off |-> 0]) ELSE {}

BitBudgetExactAt(in, h, r) ==
    (h.ok /\ h.val.tag = "Bits" /\ r.ok)
        => /\ SumPacketLen(r.log) = h.val.n
           /\ len(h.tail) - len(r.tail) = h.val.n

\* C1: whenever parse_operator_packet succeeds on an operator of declared bit
\* length n, the bits its sub-packets took (each len(input) - len(tail))
\* total exactly n, at every cursor into every decoded buffer.
C1_BitBudgetExact ==
    \A in \in Cursors :
        BitBudgetExactAt(in, OperatorHeader(in), parse_operator_packet(in))

BitBudgetWitnessAt(h, r) ==
    h.ok /\ h.val.tag = "Bits" /\ r.ok /\ h.val.n > 0 /\ Len(r.log) >= 2

\* A bit-length operator of two or more sub-packets parsed with success.
C1_Witness ==
    \E in \in Cursors : BitBudgetWitnessAt(OperatorHeader(in), parse_operator_packet(in))

\* A sub-packet that took more bits than the budget had left.
Overrun(entry) == entry.left >= 0 /\ entry.packet_len > entry.left

OverrunFailsAt(h, r) ==
    (h.ok /\ h.val.tag = "Bits")
        => \A i \in 1..Len(r.log) :
              Overrun(r.log[i])
                  => /\ ~r.ok
                     /\ r.fail \in {"Error", "Failure"}
                     /\ i = Len(r.log)

\* C2: under a bit-length budget, a sub-packet that takes more bits than the
\* budget has left makes parse_operator_packet fail with a parse error at
\* that step: it is the last sub-packet parsed, and the result is an error
\* value, not a panic.
C2_OverrunFails ==
    \A in \in Cursors :
        OverrunFailsAt(OperatorHeader(in), parse_operator_packet(in))

\* The top-level packet of the decoded bytes, parsed alone.
TopPacket == parse_packet([buf |-> hex.val, off |-> 0])

\* The bit parser has run on the decoded bytes.
BitsParsed == pc \in {"parsed", "done"} /\ hex.ok

AllZero(in) == \A i \in 0..(len(in) - 1) : bit_at(in.buf, in.off + i) = 0

\* C3: when the bytes are a valid top-level packet followed by k zero bits,
\* 0 <= k <= 7, final_parse_top_packet succeeds and returns that packet.
C3_PaddingTolerated ==
    (BitsParsed /\ TopPacket.ok /\ len(TopPacket.tail) <= 7 /\ AllZero(TopPacket.tail))
        => (packet.ok /\ packet.val = TopPacket.val)

\* C4: when any bit of the buffer after the top-level packet is 1,
\* final_parse_top_packet returns an error and no packet.
C4_TrailingOneRejected ==
    (BitsParsed /\ TopPacket.ok /\ ~AllZero(TopPacket.tail))
        => (~packet.ok /\ packet.fail = "BitError" /\ answer = [ok |-> FALSE, fail |-> "BitError"])

\* A valid packet followed by zero bits and then a 1 bit has been parsed.
C4_Witness ==
    /\ BitsParsed /\ TopPacket.ok /\ ~AllZero(TopPacket.tail)
    /\ bit_at(TopPacket.tail.buf, TopPacket.tail.off) = 0
    /\ pc = "done"

\* part2 on the transmission h has returned: it returned v.
Part2Returns(h, v) ==
    (input.chars = h /\ pc = "done")
        => (answer.ok /\ (answer.part = 2 => answer.val = u64_from(v)))

\* part1 on the transmission h has returned: it returned v.
Part1Returns(h, v) ==
    (input.chars = h /\ pc = "done")
        => (answer.ok /\ (answer.part = 1 => answer.val = u64_from(v)))

\* C5: part2 returns 3 for the transmission C200B40A82.
C5_Sum == Part2Returns(Hex_C200B40A82, 3)

\* C6: part2 returns 54 for 04005AC33890, 7 for 880086C3E88112, 9 for
\* CE00C43D881120, 1 for D8005AC2A8F0 and 1 for 9C0141080250320F1802104A08.
C6_Values ==
    /\ Part2Returns(Hex_04005AC33890, 54)
    /\ Part2Returns(Hex_880086C3E88112, 7)
    /\ Part2Returns(Hex_CE00C43D881120, 9)
    /\ Part2Returns(Hex_D8005AC2A8F0, 1)
    /\ Part2Returns(Hex_9C0141080250320F1802104A08, 1)

\* part2 has returned for the last of them.
C6_Witness ==
    /\ input.chars = Hex_9C0141080250320F1802104A08
    /\ pc = "done" /\ answer.ok /\ answer.part = 2

\* C7: part1 returns 16 for 8A004A801A8002F478, 12 for
\* 620080001611562C8802118E34, 23 for C0015000016115A2E0802F182340 and 31
\* for A0016C880162017C3686B18A3D4780.
C7_VersionSums ==
    /\ Part1Returns(Hex_8A004A801A8002F478, 16)
    /\ Part1Returns(Hex_620080001611562C8802118E34, 12)
    /\ Part1Returns(Hex_C0015000016115A2E0802F182340, 23)
    /\ Part1Returns(Hex_A0016C880162017C3686B18A3D4780, 31)

\* part1 has returned for the last of them.
C7_Witness ==
    /\ input.chars = Hex_A0016C880162017C3686B18A3D4780
    /\ pc = "done" /\ answer.ok /\ answer.part = 1

\* n packets parsed one after the other from in.
RECURSIVE PacketsFrom(_, _, _)
PacketsFrom(in, n, packets) ==
    IF n = 0 THEN Ok(in, packets)
    ELSE and_then(parse_packet(in), LAMBDA p :
             PacketsFrom(p.tail, n - 1, Append(packets, p.val)))

PacketCountExactAt(h, r) ==
    (h.ok /\ h.val.tag = "Packets" /\ r.ok)
        => /\ Len(r.val.operands) = h.val.n
           /\ PacketsFrom(h.tail, h.val.n, <<>>).ok
           /\ r.val.operands = PacketsFrom(h.tail, h.val.n, <<>>).val
           /\ r.tail = PacketsFrom(h.tail, h.val.n, <<>>).tail

\* C8: whenever parse_operator_packet succeeds on an operator of declared
\* packet count n, its operands are exactly the n packets that follow the
\* header, in input order, and it ends right after the n-th.
C8_PacketCountExact ==
    \A in \in Cursors :
        PacketCountExactAt(OperatorHeader(in), parse_operator_packet(in))

PacketCountWitnessAt(h, r) ==
    /\ h.ok /\ h.val.tag = "Packets" /\ r.ok /\ h.val.n >= 1
    /\ parse_packet(r.tail).ok

\* A packet-count operator parsed with success, a further packet following
\* its last operand.
C8_Witness ==
    \E in \in Cursors :
        PacketCountWitnessAt(OperatorHeader(in), parse_operator_packet(in))

\* The trimmed input holds a character that is no hex digit.
Trimmed == trim(input).chars

HasNonHex == \E i \in 1..Len(Trimmed) : Trimmed[i] \notin HexDigits

\* C9: if the trimmed input holds any character outside [0-9a-fA-F], the
\* decode fails with the hex-phase error and the bit parser never runs.
C9_NonHexRejected ==
    (pc # "hex" /\ HasNonHex)
        => (~hex.ok /\ hex.fail = "HexError" /\ packet = Pending)

\* The line and column (1-based, the column in bytes) of character i.
LocationOf(cs, i) ==
    [line |-> newlines(SubSeq(cs, 1, i - 1)) + 1,
     column |-> chars_len(last_line(SubSeq(cs, 1, i - 1))) + 1]

\* The characters of the input at the location the hex error reports.
Reported == {i \in 1..Len(input.chars) : LocationOf(input.chars, i) = hex.location}

HexFailed == pc = "done" /\ ~hex.ok /\ hex.fail = "HexError" /\ HasNonHex

\* C10, as claimed: when hex decoding fails, the position reported is the
\* index of the offending non-hex character itself.
C10_ReportsOffender ==
    HexFailed => \E i \in Reported : input.chars[i] \notin HexDigits

\* The bytes from the first character of the trimmed input to character i.
TrimmedOffset(i) ==
    chars_len(SubSeq(input.chars, 1, i - 1)) - (trim(input).base - input.base)

\* The index in the input of the last character of the trimmed input.
TrimmedEnd == Len(input.chars) - Len(trim_start(input).chars) + Len(Trimmed)

\* What the code reports: when hex decoding fails, the position is that of
\* the first character of the two-byte group in which decoding stopped: a
\* whole number of groups from the start of the trimmed input, and either
\* the offending character itself or the digit just before it.
C10_ReportsGroup ==
    HexFailed =>
        \E i \in Reported :
            /\ TrimmedOffset(i) >= 0 /\ TrimmedOffset(i) % 2 = 0
            /\ \/ input.chars[i] \notin HexDigits
               \/ /\ i < TrimmedEnd
                  /\ input.chars[i + 1] \notin HexDigits

\* Decoding failed at a group whose second character is the offender.
C10_Witness ==
    /\ HexFailed
    /\ \E i \in Reported :
          /\ input.chars[i] \in HexDigits
          /\ TrimmedOffset(i) > 0

\* The value of a hex digit of either case.
LowerHexChars ==
    <<"0", "1", "2", "3", "4", "5", "6", "7", "8", "9", "a", "b", "c", "d", "e", "f">>

DigitValue(c) == (CHOOSE i \in 1..16 : HexChars[i] = c \/ LowerHexChars[i] = c) - 1

\* The trimmed input is a non-empty string of hex digits.
AllHex == Trimmed # <<>> /\ \A i \in 1..Len(Trimmed) : Trimmed[i] \in HexDigits

\* One byte per pair of digits, the first digit the high nibble, and a byte
\* of low nibble 0 for a last digit without a pair.
PairedBytes(ds) ==
    [i \in 1..((Len(ds) + 1) \div 2) |->
        16 * DigitValue(ds[2 * i - 1])
        + (IF 2 * i <= Len(ds) THEN DigitValue(ds[2 * i]) ELSE 0)]

\* C11: for a non-empty string of hex digits of either case, whitespace
\* around it or not, the hex phase yields one byte per pair of digits, the
\* first digit the high nibble, and for an odd length a last byte of the
\* last digit and a low nibble 0: ceil(digits / 2) bytes.
C11_HexBytes ==
    (pc # "hex" /\ AllHex)
        => /\ hex.ok
           /\ hex.val = PairedBytes(Trimmed)
           /\ Len(hex.val) = (Len(Trimmed) + 1) \div 2

\* An odd number of digits, more than one, the last not 0, has been decoded.
C11_Witness ==
    /\ pc # "hex" /\ AllHex /\ hex.ok
    /\ Len(Trimmed) % 2 = 1 /\ Len(Trimmed) > 1
    /\ DigitValue(Trimmed[Len(Trimmed)]) # 0

\* Every cursor into the decoded bytes.
AllCursors ==
    IF pc = "bits"
    THEN {Skip([buf |-> hex.val, off |-> 0], n) : n \in 0..(8 * Len(hex.val))}
    ELSE {}

\* The continuation bit and the payload of group i of a literal body at in
\* (in is the cursor after the version).
MoreAt(in, i) == bit_at(in.buf, in.off + 3 + 5 * (i - 1)) = 1

GroupAt(in, i) == bits_value(in.buf, in.off + 3 + 5 * (i - 1) + 1, 4)

\* The number of groups of the literal encoded at in: 0 when in holds no
\* literal body that ends within the buffer.
GroupCount(in) ==
    IF /\ len(in) >= 3
       /\ bits_value(in.buf, in.off, 3) = 4
       /\ \E k \in 1..((len(in) - 3) \div 5) : ~MoreAt(in, k)
    THEN CHOOSE k \in 1..((len(in) - 3) \div 5) :
             ~MoreAt(in, k) /\ \A j \in 1..(k - 1) : MoreAt(in, j)
    ELSE 0

\* ((g1 * 16 + g2) * 16 + ...) * 16 + gk, as the digits of a u64 and, for
\* the values an Int holds, as a number.
Accumulated(in, k) ==
    [i \in 1..U64Digits |->
        IF i <= U64Digits - k THEN 0 ELSE GroupAt(in, i - (U64Digits - k))]

RECURSIVE AccumulatedInt(_, _)
AccumulatedInt(in, k) ==
    IF k = 0 THEN 0 ELSE AccumulatedInt(in, k - 1) * 16 + GroupAt(in, k)

\* The number a u64 below 2^28 stands for.
ToInt(u) ==
    u[16] + 16 * u[15] + 256 * u[14] + 4096 * u[13] + 65536 * u[12]
    + 1048576 * u[11] + 16777216 * u[10]

IsSmall(u) == \A i \in 1..9 : u[i] = 0

LiteralExactAt(in, k, r) ==
    (k >= 1 /\ k <= 16)
        => /\ r.ok
           /\ r.val = Accumulated(in, k)
           /\ (k <= 7 => IsSmall(r.val) /\ ToInt(r.val) = AccumulatedInt(in, k))
           /\ len(in) - len(r.tail) = 3 + 5 * k

\* C12: on a literal of k groups, 1 <= k <= 16, of payloads g1..gk,
\* parse_literal_packet returns ((g1 * 16 + g2) * 16 + ...) * 16 + gk and
\* takes exactly 3 + 5k bits after the version, at every cursor.
C12_LiteralAccumulates ==
    \A in \in AllCursors : LiteralExactAt(in, GroupCount(in), parse_literal_packet(in))

\* A literal of 16 groups, the first not 0, has been parsed.
C12_Witness ==
    \E in \in AllCursors :
        /\ GroupCount(in) = 16
        /\ parse_literal_packet(in).ok
        /\ parse_literal_packet(in).val[1] # 0

\* The packets of a tree: the packet, its operands, theirs, and so on.
RECURSIVE Subtrees(_)
Subtrees(p) ==
    {p} \cup
    (IF p.data.tag = "Literal" THEN {}
     ELSE UNION {Subtrees(p.data.op.operands[i]) : i \in 1..Len(p.data.op.operands)})

\* The packets of the tree the parse returned.
Tree == IF pc \in {"parsed", "done"} /\ packet.ok THEN Subtrees(packet.val) ELSE {}

Children(p) == IF p.data.tag = "Literal" THEN <<>> ELSE p.data.op.operands

RECURSIVE IntSum(_)
IntSum(xs) == IF xs = <<>> THEN 0 ELSE Head(xs) + IntSum(Tail(xs))

\* The version sum of a packet as a number.
VersionSum(p) == ToInt(Packet_version_sum(p).val)

VersionSumAdditiveAt(p) ==
    /\ ~Packet_version_sum(p).panic
    /\ IsSmall(Packet_version_sum(p).val)
    /\ VersionSum(p) = ToInt(p.version)
                       + IntSum([i \in 1..Len(Children(p)) |-> VersionSum(Children(p)[i])])

\* C13: for every packet of a tree, version_sum is the version of the packet
\* plus the sum of version_sum over its direct children, and so the version
\* alone for a literal.
C13_VersionSumAdditive == \A p \in Tree : VersionSumAdditiveAt(p)

\* A tree three packets deep, every version above 0, has been summed.
C13_Witness ==
    /\ pc = "done" /\ answer.ok /\ answer.part = 1
    /\ \A p \in Tree : ToInt(p.version) > 0
    /\ \E p \in Tree : \E i \in 1..Len(Children(p)) : Children(Children(p)[i]) # <<>>

\* Natural numbers of any size, as hex digits, the least significant first.
NatOf(u) == SubSeq([i \in 1..U64Digits |-> u[U64Digits + 1 - i]], 1, U64Digits)

NatDigit(a, i) == IF i >= 1 /\ i <= Len(a) THEN a[i] ELSE 0

NatWidth(a, b) == IF Len(a) > Len(b) THEN Len(a) ELSE Len(b)

\* The digits of a number given as the sums of its columns.
RECURSIVE NatCarry(_, _)
NatCarry(columns, carry) ==
    IF columns = <<>>
    THEN (IF carry = 0 THEN <<>> ELSE <<carry % 16>> \o NatCarry(<<>>, carry \div 16))
    ELSE <<(Head(columns) + carry) % 16>>
         \o NatCarry(Tail(columns), (Head(columns) + carry) \div 16)

NatAdd(a, b) ==
    NatCarry(SubSeq([i \in 1..NatWidth(a, b) |-> NatDigit(a, i) + NatDigit(b, i)],
                    1, NatWidth(a, b)), 0)

RECURSIVE NatColumn(_, _, _, _)
NatColumn(a, b, c, i) ==
    IF i > c THEN 0
    ELSE NatDigit(a, i) * NatDigit(b, c + 1 - i) + NatColumn(a, b, c, i + 1)

NatMul(a, b) ==
    NatCarry(SubSeq([c \in 1..(Len(a) + Len(b)) |-> NatColumn(a, b, c, 1)],
                    1, Len(a) + Len(b)), 0)

NatEq(a, b) == \A i \in 1..NatWidth(a, b) : NatDigit(a, i) = NatDigit(b, i)

NatLt(a, b) ==
    \E i \in 1..NatWidth(a, b) :
        /\ NatDigit(a, i) < NatDigit(b, i)
        /\ \A j \in (i + 1)..NatWidth(a, b) : NatDigit(a, j) = NatDigit(b, j)

RECURSIVE NatSum(_)
NatSum(xs) == IF xs = <<>> THEN <<>> ELSE NatAdd(Head(xs), NatSum(Tail(xs)))

RECURSIVE NatProduct(_)
NatProduct(xs) == IF xs = <<>> THEN <<1>> ELSE NatMul(Head(xs), NatProduct(Tail(xs)))

\* The operators of the tree whose operands all have a value, and the values.
Evaluated(p) ==
    /\ p.data.tag = "Operator"
    /\ \A i \in 1..Len(Children(p)) : ~Packet_value(Children(p)[i]).panic

OperandValues(p) ==
    SubSeq([i \in 1..Len(Children(p)) |-> NatOf(Packet_value(Children(p)[i]).val)],
           1, Len(Children(p)))

ArithmeticAt(p, type_id, xs, v) ==
    /\ ~v.panic
    /\ type_id = "Sum" => NatEq(NatOf(v.val), NatSum(xs))
    /\ type_id = "Product" => NatEq(NatOf(v.val), NatProduct(xs))
    /\ type_id = "Min" =>
          /\ \E i \in 1..Len(xs) : NatEq(NatOf(v.val), xs[i])
          /\ \A i \in 1..Len(xs) : ~NatLt(xs[i], NatOf(v.val))
    /\ type_id = "Max" =>
          /\ \E i \in 1..Len(xs) : NatEq(NatOf(v.val), xs[i])
          /\ \A i \in 1..Len(xs) : ~NatLt(NatOf(v.val), xs[i])

\* C14: the value of an operator of one operand or more is the arithmetic
\* sum of the operand values for Sum, their arithmetic product for Product,
\* their minimum for Min and their maximum for Max, at every depth of a tree.
C14_Arithmetic ==
    \A p \in Tree :
        (Evaluated(p) /\ Children(p) # <<>>
              /\ p.data.op.type_id \in {"Sum", "Product", "Min", "Max"})
            => ArithmeticAt(p, p.data.op.type_id, OperandValues(p), Packet_value(p))

\* The same where the sum or the product fits 64 bits.
Fits(p) ==
    /\ p.data.op.type_id = "Sum" => Len(NatSum(OperandValues(p))) <= U64Digits
    /\ p.data.op.type_id = "Product" =>
          \A i \in (U64Digits + 1)..Len(NatProduct(OperandValues(p))) :
              NatProduct(OperandValues(p))[i] = 0

ArithmeticWhereItFits ==
    \A p \in Tree :
        (Evaluated(p) /\ Children(p) # <<>> /\ Fits(p)
              /\ p.data.op.type_id \in {"Sum", "Product", "Min", "Max"})
            => ArithmeticAt(p, p.data.op.type_id, OperandValues(p), Packet_value(p))

ComparisonAt(type_id, a, b, v) ==
    /\ ~v.panic
    /\ v.val \in {u64_from(0), u64_from(1)}
    /\ v.val = u64_from(1) <=>
          CASE type_id = "Greater" -> NatLt(b, a)
            [] type_id = "Less" -> NatLt(a, b)
            [] OTHER -> NatEq(a, b)

\* C15: the value of a Greater, Less or Eq operator of exactly two operands
\* of values a (the first in input order) and b is 1 if a > b, a < b or
\* a = b, and 0 otherwise.
C15_Comparisons ==
    \A p \in Tree :
        (Evaluated(p) /\ Len(Children(p)) = 2
              /\ p.data.op.type_id \in {"Greater", "Less", "Eq"})
            => ComparisonAt(p.data.op.type_id, OperandValues(p)[1], OperandValues(p)[2],
                            Packet_value(p))

\* part2 has returned 1 for a Less of a first operand below the second.
C15_Witness ==
    /\ pc = "done" /\ packet.ok /\ answer.ok /\ answer.part = 2
    /\ packet.val.data.tag = "Operator" /\ packet.val.data.op.type_id = "Less"
    /\ Len(Children(packet.val)) = 2
    /\ NatLt(OperandValues(packet.val)[1], OperandValues(packet.val)[2])
    /\ answer.val = u64_from(1)

\* C18: every operator packet of a tree a parse returned has one operand or
\* more: an operator declaring 0 bits or 0 packets is not accepted.
C18_NoEmptyOperator ==
    \A p \in Tree : p.data.tag = "Operator" => Len(p.data.op.operands) >= 1

\* C19: part1 and part2 return a number for every tree the parser returns:
\* evaluation has no failure of its own.
C19_EvaluationTotal ==
    (pc = "done" /\ packet.ok) => answer.ok

\* The windows of n consecutive items of items, in order.
WindowsOf(items, n) ==
    IF Len(items) < n THEN <<>>
    ELSE SubSeq([i \in 1..(Len(items) - n + 1) |-> SubSeq(items, i, i + n - 1)],
                1, Len(items) - n + 1)

\* The number of items pulled from the source so far.
Pulled == Len(source) - Len(windows.iter)

\* The number of windows still to be yielded.
Remaining == Len(WindowsOf(source, N)) - Len(yielded)

\* C16: streaming_windows::<N>() over L items, N >= 1, yields exactly
\* max(0, L - N + 1) arrays, the i-th being items i .. i+N-1 in order, then
\* None; each item of the source is pulled exactly once: what has been yielded
\* is always the first windows of the source, the source still holds the
\* items after those pulled, and when None is returned every window has been
\* yielded and every item pulled.
C16_StreamingWindows ==
    returned # NoCall =>
        /\ Len(WindowsOf(source, N)) = (IF Len(source) - N + 1 > 0
                                         THEN Len(source) - N + 1 ELSE 0)
        /\ Len(yielded) <= Len(WindowsOf(source, N))
        /\ yielded = SubSeq(WindowsOf(source, N), 1, Len(yielded))
        /\ returned.some => returned.val = WindowsOf(source, N)[Len(yielded)]
        /\ windows.iter = SubSeq(iter_map(source, "item"), Pulled + 1, Len(source))
        /\ ~returned.some => (Remaining = 0 /\ Pulled = Len(source))

C16_Witness ==
    /\ returned = None
    /\ N = 3
    /\ Len(source) = 6
    /\ yielded = <<<<0, 1, 2>>, <<1, 2, 3>>, <<2, 3, 4>>, <<3, 4, 5>>>>

\* C17: at every point of the iteration (before the first next(), after each
\* next(), after exhaustion) size_hint() over an exact-size source is
\* (r, Some(r)) and len() is r, r the number of windows still to be yielded;
\* when the lower bound is unknown (a source that does not know it, or a
\* filter over the windows) the upper bound is still exactly r and the lower
\* bound is at most r.
C17_SizeHint ==
    /\ (hint # NoCall /\ hint.call = "size_hint") =>
           /\ hint.val.upper = Some(Remaining)
           /\ exact_size => hint.val.lower = Remaining
           /\ hint.val.lower <= Remaining
    /\ (hint # NoCall /\ hint.call = "len") => hint.val = Remaining
    /\ (hint # NoCall /\ hint.call = "filter") =>
           hint.val = [lower |-> 0, upper |-> Some(Remaining)]

C17_Witness ==
    /\ hint # NoCall
    /\ hint.call = "size_hint"
    /\ exact_size
    /\ windows.state.tag = "Buffered"
    /\ hint.val = [lower |-> 2, upper |-> Some(2)]
    /\ Len(yielded) = 2

\* C20: the location recreate_context gives has 0 <= bit_offset < 8 and
\* byte_offset * 8 + bit_offset is the number of bits between the start
\* cursor and the failing cursor, for every bit offset of the start, also when
\* the failing cursor's bit offset is the smaller one.
C20_Location ==
    location # NoCall =>
        /\ location.bit_offset >= 0
        /\ location.bit_offset < 8
        /\ location.byte_offset >= 0
        /\ (location.byte_offset * 8) + location.bit_offset
               = len(original_input) - len(tail_input)

C20_Witness ==
    /\ location # NoCall
    /\ original_input.off > tail_input.off
    /\ location.byte_offset >= 1

\* The bits of a byte and of a buffer, the most significant first.
ByteBits(b) == <<(b \div 128) % 2, (b \div 64) % 2, (b \div 32) % 2, (b \div 16) % 2,
                 (b \div 8) % 2, (b \div 4) % 2, (b \div 2) % 2, b % 2>>

RECURSIVE BufferBits(_)
BufferBits(buf) == IF buf = <<>> THEN <<>> ELSE ByteBits(Head(buf)) \o BufferBits(Tail(buf))

\* The unsigned integer of a sequence of bits, the most significant first.
RECURSIVE Unsigned(_)
Unsigned(bs) ==
    IF bs = <<>> THEN 0 ELSE 2 * Unsigned(SubSeq(bs, 1, Len(bs) - 1)) + bs[Len(bs)]

\* The position of a cursor: the bits between the start of the bytes and it.
Position(in) == Len(cursor_bytes) * 8 - len(in)

\* The value a call returned, as an integer.
TakenValue ==
    IF taken.call = "take_bit" THEN (IF taken.result.val THEN 1 ELSE 0)
    ELSE taken.result.val

\* C21: after any sequence of take_bits / take_bit calls the bit offset of the
\* cursor is in [0, 8); a take of N bits with at least N bits left succeeds,
\* returns the next N bits as an unsigned integer, most significant bit
\* first, and moves the position (by len) exactly N bits on, across byte
\* boundaries; a take with fewer than N bits left fails, its error at the
\* cursor it was given, and the caller's cursor is unchanged.
C21_TakeBits ==
    /\ cursor.off \in 0..7
    /\ cursor.off > 0 => cursor.buf # <<>>
    /\ cursor.buf = SubSeq(cursor_bytes, Len(cursor_bytes) - Len(cursor.buf) + 1, Len(cursor_bytes))
    /\ taken # NoCall =>
        IF len(taken.from) >= taken.n
        THEN /\ taken.result.ok
             /\ TakenValue = Unsigned(SubSeq(BufferBits(cursor_bytes), Position(taken.from) + 1,
                                             Position(taken.from) + taken.n))
             /\ Position(taken.result.tail) = Position(taken.from) + taken.n
             /\ cursor = taken.result.tail
        ELSE /\ ~taken.result.ok
             /\ taken.result.fail = "Error"
             /\ taken.result.at = taken.from
             /\ cursor = taken.from

\* A take of 11 bits from the middle of a byte, over two byte boundaries.
C21_Witness ==
    /\ taken # NoCall
    /\ taken.n = 11
    /\ taken.result.ok
    /\ taken.from.off = 6
    /\ cursor.off = 1
    /\ Len(taken.from.buf) - Len(cursor.buf) = 2

\* The opcode of each type id, 4 having none.
OpcodeOf(type_id) ==
    <<"Sum", "Product", "Min", "Max", "Literal", "Greater", "Less", "Eq">>[type_id + 1]

\* The type id of the packet at in (its version included), -1 when the
\* buffer ends before it.
TypeIdAt(in) == IF len(in) >= 6 THEN bits_value(in.buf, in.off + 3, 3) ELSE -1

\* parse_opcode would reject the type id of the packet at in as unknown.
UnknownOpcodeAt(in) ==
    /\ len(in) >= 6
    /\ ~parse_opcode(Skip(in, 3)).ok

\* What parse_packet returned at in, r, is what its type id asks for.
AlternativeAt(in, r) ==
    /\ TypeIdAt(in) = 4 =>
           /\ r.ok => r.val.data.tag = "Literal"
           /\ ~r.ok => r.fail = "Failure"
           /\ r = map(parse_literal_packet(Skip(in, 3)), LAMBDA value :
                      [version |-> u64_from(bits_value(in.buf, in.off, 3)),
                       data |-> Literal(value)])
    /\ TypeIdAt(in) \in {0, 1, 2, 3, 5, 6, 7} =>
           /\ r.ok => (r.val.data.tag = "Operator"
                       /\ r.val.data.op.type_id = OpcodeOf(TypeIdAt(in)))
           /\ ~r.ok => r.fail \in {"Failure", "Panic"}
    /\ UnknownOpcodeAt(in) <=> TypeIdAt(in) = 4
    /\ UnknownOpcodeAt(in) => (r.ok \/ r.fail = "Failure")

\* The cursors at which the parse of a packet at in calls parse_packet: in
\* itself and, for an operator, the cursors of the sub-packets its loop goes
\* on to parse.
RECURSIVE PacketCalls(_)
PacketCallsOf(in, h, r) ==
    IF h.ok
    THEN UNION {PacketCalls(Skip(h.tail, SumPacketLen(SubSeq(r.log, 1, i)))) :
                   i \in 0..Len(r.log)}
    ELSE {}

PacketCalls(in) ==
    {in} \cup
    (IF len(in) < 6 \/ bits_value(in.buf, in.off + 3, 3) = 4 THEN {}
     ELSE PacketCallsOf(Skip(in, 3), OperatorHeader(Skip(in, 3)),
                        parse_operator_packet(Skip(in, 3))))

\* The cursors at which the decode of the bytes calls parse_packet.
DecodeCursors == IF pc = "bits" THEN PacketCalls([buf |-> hex.val, off |-> 0]) ELSE {}

\* C22: at every cursor of a decode, parse_packet on a packet of type id 4
\* gives what parse_literal_packet gives, a literal or a Failure that alt does
\* not take to the operator alternative; on every other type id it gives an
\* operator of the opcode of that type id, or a failure from beyond the
\* opcode; the rejection of parse_opcode, which happens on type id 4 only, is
\* never the outcome.
C22_LiteralOrOperator == \A c \in DecodeCursors : AlternativeAt(c, parse_packet(c))

\* A literal that the buffer cuts short within its groups.
C22_Witness ==
    \E c \in DecodeCursors :
        /\ TypeIdAt(c) = 4
        /\ ~parse_packet(c).ok
        /\ parse_packet(c).fail = "Failure"
        /\ ~parse_opcode(Skip(c, 3)).ok

\* The decode has ended: the parse failed or returned its packet.
DecodeEnded == pc \in {"parsed", "done"}

\* It ended with a packet or with an error returned to the caller.
PacketOrError ==
    \/ ~hex.ok /\ hex.fail = "HexError"
    \/ hex.ok /\ packet.ok
    \/ hex.ok /\ ~packet.ok /\ packet.fail = "BitError"

\* Every sub-packet the loop of parse_operator_packet parsed took at least
\* one bit, at every cursor of the decode.
LogOf(r) == IF "log" \in DOMAIN r THEN r.log ELSE <<>>

SubPacketsConsume ==
    \A c \in Cursors :
        \A i \in 1..Len(LogOf(parse_operator_packet(c))) :
            LogOf(parse_operator_packet(c))[i].packet_len >= 1

\* The decode ends.
DecodeTerminates == <>DecodeEnded

\* C23: the decode of every input ends, and ends with a packet or an error,
\* under either length mode and also when a bit-length budget is overrun.
C23_DecodeEndsInResult == <>(DecodeEnded /\ PacketOrError)

\* The value the claim gives an operator of no operand.
EmptyValue(type_id) ==
    CASE type_id \in {"Sum", "Min", "Max"} -> 0
      [] type_id = "Product" -> 1
      [] type_id \in {"Greater", "Less", "Eq"} -> 1

\* C24: an operator of no operand (a declared bit length or packet count of
\* 0) evaluates to 0 for Sum, 1 for Product, 0 for Min and for Max, and 1 for
\* GreaterThan, LessThan and EqualTo, at every depth of a tree.
C24_EmptyOperands ==
    \A p \in Tree :
        (p.data.tag = "Operator" /\ Children(p) = <<>>)
            => Packet_value(p) = Value(u64_from(EmptyValue(p.data.op.type_id)))

\* part2 has returned 0 for a Max of a declared bit length of 0.
C24_Witness ==
    /\ pc = "done"
    /\ packet.ok
    /\ packet.val.data.tag = "Operator"
    /\ packet.val.data.op = [type_id |-> "Max", operands |-> <<>>]
    /\ bit_at(hex.val, 6) = 0
    /\ answer = [ok |-> TRUE, part |-> 2, val |-> U64Zero]

\* The relation of a comparison between two operand values.
Related(type_id, a, b) ==
    CASE type_id = "Greater" -> NatLt(b, a)
      [] type_id = "Less" -> NatLt(a, b)
      [] type_id = "Eq" -> NatEq(a, b)

ChainAt(type_id, xs, v) ==
    /\ ~v.panic
    /\ v.val \in {u64_from(0), u64_from(1)}
    /\ v.val = u64_from(1) <=>
          \A i \in 1..(Len(xs) - 1) : Related(type_id, xs[i], xs[i + 1])
    /\ Len(xs) < 2 => v.val = u64_from(1)

\* C25: a Greater, Less or Eq operator of k operands, k # 2, is accepted by
\* the parser, and its value is 1 exactly when every two adjacent operand
\* values satisfy the relation, hence 1 when k < 2; else it is 0.
C25_ComparisonChains ==
    \A p \in Tree :
        (Evaluated(p) /\ Len(Children(p)) # 2
              /\ p.data.op.type_id \in {"Greater", "Less", "Eq"})
            => ChainAt(p.data.op.type_id, OperandValues(p), Packet_value(p))

\* part2 has returned 0 for 3 > 1 > 2, whose first pair is in the relation.
C25_Witness ==
    /\ pc = "done"
    /\ packet.ok
    /\ packet.val.data.tag = "Operator"
    /\ packet.val.data.op.type_id = "Greater"
    /\ Len(Children(packet.val)) = 3
    /\ OperandValues(packet.val) = <<NatOf(u64_from(3)), NatOf(u64_from(1)), NatOf(u64_from(2))>>
    /\ answer = [ok |-> TRUE, part |-> 2, val |-> U64Zero]

\* The last 16 of the k groups of the literal body at in: the accumulation of
\* all k groups modulo 2^64.
LastGroups(in, k) ==
    SubSeq([i \in 1..U64Digits |-> GroupAt(in, k - U64Digits + i)], 1, U64Digits)

LiteralWrapsAt(in, k, r) ==
    k > 16
        => /\ r.ok
           /\ r.val = LastGroups(in, k)
           /\ len(in) - len(r.tail) = 3 + 5 * k

\* C26: a literal of more than 16 groups is parsed successfully, with and
\* without overflow checks: its value is the accumulation of all its groups
\* modulo 2^64, that is its last 16 groups, and it takes 3 + 5k bits.
C26_LongLiteralWraps ==
    \A in \in AllCursors : LiteralWrapsAt(in, GroupCount(in), parse_literal_packet(in))

\* part2, under overflow checks, has returned 0 for the literal of 17 groups
\* 1, 0, ..., 0.
C26_Witness ==
    /\ pc = "done"
    /\ overflow_checks
    /\ hex.ok
    /\ GroupCount([buf |-> hex.val, off |-> 3]) = 17
    /\ GroupAt([buf |-> hex.val, off |-> 3], 1) = 1
    /\ packet.ok
    /\ packet.val.data = Literal(U64Zero)
    /\ answer = [ok |-> TRUE, part |-> 2, val |-> U64Zero]

\* The results of all the calls of take() that have returned.
TakeResults == {<<t, i>> : t \in Threads, i \in 1..MaxTakes}

Returned(ti) == ti[2] <= Len(takers[ti[1]].results)

ReturnedSome == {ti \in TakeResults : Returned(ti) /\ takers[ti[1]].results[ti[2]].some}

\* The cell was made by new(v).
MadeByNew == cell_value # Uninit

\* C27: however the calls of take() of several threads interleave, a call
\* that returns a value returns Some(v), at most one call does, on a cell made
\* by new(v) exactly one does once the flag has been taken and no call is in
\* progress, and every other call returns None; on a cell made by empty()
\* every call returns None; the slot is read at most once, and never when it
\* is uninitialized.
C27_TakeOnce ==
    /\ \A ti \in ReturnedSome : takers[ti[1]].results[ti[2]] = Some("v")
    /\ Cardinality(ReturnedSome) <= 1
    /\ cell_reads <= 1
    /\ ~MadeByNew => (ReturnedSome = {} /\ cell_reads = 0)
    /\ (MadeByNew /\ ~cell_inhabited /\ \A t \in Threads : takers[t].pc = "idle")
           => Cardinality(ReturnedSome) = 1
    /\ (MadeByNew /\ cell_inhabited) => \A t \in Threads : takers[t].results = <<>>

\* Every thread has made its calls; the first call of thread 2 got the value
\* and every other call None.
C27_Witness ==
    /\ MadeByNew
    /\ \A t \in Threads : takers[t].calls = 0 /\ takers[t].pc = "idle"
    /\ takers[2].results = <<Some("v"), None>>
    /\ takers[1].results = <<None, None>>
    /\ takers[3].results = <<None, None>>

\* The count a counter holds for a key: 0 for a key it does not store.
StoredCount(counter, k) == IF k \in DOMAIN counter THEN counter[k] ELSE U64Zero

RECURSIVE NatSumOver(_, _, _)
NatSumOver(S, g, k) ==
    IF S = {} THEN <<>>
    ELSE LET a == CHOOSE x \in S : TRUE
         IN  NatAdd(NatMul(NatOf(u64_from(g[k][a])), NatOf(a)), NatSumOver(S \ {a}, g, k))

\* The total amount added for key k, a natural number.
AddedTotal(g, k) == NatSumOver(Amounts, g, k)

\* A natural number below 2^64.
FitsUsize(t) == \A i \in 1..Len(t) : i > U64Digits => t[i] = 0

\* The outcomes of a.merge(b), for either capacity order and every order of
\* the sender's pairs.
MergeOutcomes(a, b) ==
    {Counter_merge(a, b, ge, order) :
        <<ge, order>> \in UNION {{<<ge, order>> :
                                     order \in Counter_into_iter(Counter_receiver(a, b, ge).sender)} :
                                 ge \in BOOLEAN}}

NoZeroCount(counter) == \A k \in DOMAIN counter : counter[k] # U64Zero

CountsAreTotals(c) ==
    \A k \in Keys : NatEq(NatOf(StoredCount(counters[c], k)), AddedTotal(added[c], k))

AddZeroLeaves(counter) ==
    \A k \in Keys : Counter_add(counter, k, U64Zero) = Value(counter)

MergeHoldsSums(a, b) ==
    \A r \in MergeOutcomes(a, b) \cup MergeOutcomes(b, a) :
        /\ ~r.panic
        /\ \A k \in Keys :
               NatEq(NatOf(StoredCount(r.val, k)),
                     NatAdd(NatOf(StoredCount(a, k)), NatOf(StoredCount(b, k))))

MergeCommutes(a, b) ==
    \A r \in MergeOutcomes(a, b), q \in MergeOutcomes(b, a) : r = q

CounterLaws ==
    /\ ~counter_panic
    /\ \A c \in Counters :
           /\ NoZeroCount(counters[c])
           /\ CountsAreTotals(c)
           /\ AddZeroLeaves(counters[c])
    /\ MergeHoldsSums(counters[1], counters[2])
    /\ MergeCommutes(counters[1], counters[2])

\* C29: after any sequence of add, add_one, extend and merge no key is stored
\* with count 0 (add of 0 leaves the counter unchanged), the stored count of
\* each key is the total amount added for it, and merge(a, b) holds
\* a[k] + b[k] for every key whichever operand receives, so that
\* merge(a, b) = merge(b, a).
C29_CountsAreTotals == counter_ops > 0 => CounterLaws

\* The totals added to the two counters together fit a usize for every key.
TotalsFit ==
    \A k \in Keys : FitsUsize(NatAdd(AddedTotal(added[1], k), AddedTotal(added[2], k)))

\* The laws of C29 hold while the totals fit a usize.
CountsWhereTheyFit == TotalsFit => CounterLaws

\* A merge of counters whose counts fit has happened.
CountsWhereTheyFit_Witness ==
    /\ TotalsFit
    /\ counter_ops = MaxOps
    /\ counters[2] = Counter_new
    /\ DOMAIN counters[1] = Keys
    /\ counters[1]["a"] = u64_from(2)
    /\ counters[1]["b"] = U64Max

\* The sum of the counts of key k among items, a natural number.
RECURSIVE ItemsTotal(_, _)
ItemsTotal(items, k) ==
    IF items = <<>> THEN <<>>
    ELSE NatAdd(IF Head(items)[1] = k THEN NatOf(Head(items)[2]) ELSE <<>>,
                ItemsTotal(Tail(items), k))

\* The count of k before the call plus the sum of its counts among the items.
ParTotal(k) == NatAdd(NatOf(StoredCount(par_initial, k)), ItemsTotal(par_items, k))

\* par_extend has ended: it has assigned *self or it has unwound.
ParEnded == par_panic \/ par_result # NoCall

ParIsExtend ==
    /\ ~par_panic
    /\ LET sequential == Counter_extend(par_initial, par_items)
       IN  /\ ~sequential.panic
           /\ par_result = Some(sequential.val)
    /\ \A k \in Keys : NatEq(NatOf(StoredCount(par_result.val, k)), ParTotal(k))

\* C28: par_extend gives the result of the sequential extend: afterwards the
\* count of every key is its count before the call plus the sum of its counts
\* among the items, for every split of the items into tasks and every number
\* of tasks, an empty item set included; the previous contents are neither
\* lost nor counted twice.
C28_ParExtendIsExtend == ParEnded => ParIsExtend

\* The totals fit a usize for every key.
ParTotalsFit == \A k \in Keys : FitsUsize(ParTotal(k))

\* C28 holds while the totals fit a usize.
ParExtendWhereItFits == (ParTotalsFit /\ ParEnded) => ParIsExtend

\* Every leaf has called the identity and exactly one of them got the
\* previous contents.
OneTaskTakes ==
    (\A t \in 1..Len(tasks) : tasks[t].pc # "identity") => ~this.inhabited

\* A par_extend of an empty item set on a counter that holds keys has ended,
\* and so has one of three tasks.
ParExtendWhereItFits_Witness ==
    /\ par_result # NoCall
    /\ par_items = <<>>
    /\ par_initial = [k \in Keys |-> u64_from(1)]

\* What the source's next() returned is an Err.
IsErrItem(x) == x.some /\ ~x.val.is_ok

\* What the source's next() returned is an Ok.
IsOkItem(x) == x.some /\ x.val.is_ok

\* The calls of body that pulled from the source, and those that pulled an Err.
PullCalls == {i \in 1..Len(calls) : calls[i].pull.some}

ErrCalls == {i \in PullCalls : IsErrItem(calls[i].pull.val)}

\* The source's n-th next().
SourceAt(n) == IF n <= Len(oks_source) THEN oks_source[n] ELSE None

\* The pulls are the source's items in order: the call that makes the n-th
\* pull gets the source's n-th next().
PullsInSourceOrder ==
    \A i \in PullCalls :
        calls[i].pull.val = SourceAt(Cardinality({j \in PullCalls : j <= i}))

\* A call yields the payload of the Ok it pulled, and None otherwise.
YieldsOkPayloads ==
    \A i \in 1..Len(calls) :
        calls[i].item = IF calls[i].pull.some /\ IsOkItem(calls[i].pull.val)
                        THEN Some(calls[i].pull.val.val.val)
                        ELSE None

\* Up to the first Err every call pulls; after it no call pulls and every call
\* returns None.
StopsAtFirstErr ==
    \A i \in 1..Len(calls) :
        IF \E e \in ErrCalls : e < i
        THEN calls[i].pull = None /\ calls[i].item = None
        ELSE calls[i].pull.some

\* use_oks returns Err(e) of the first Err pulled, and Ok(value of body) when
\* body pulled no Err.
ReturnsFirstErr ==
    oks_result # NoCall =>
        IF ErrCalls = {}
        THEN oks_result = ResultOk(BodyValue)
        ELSE LET first == CHOOSE e \in ErrCalls : \A f \in ErrCalls : e <= f
             IN  oks_result = ResultErr(calls[first].pull.val.val.err)

\* C30: the adapter yields the Ok payloads in source order up to the first
\* Err; after pulling that Err it returns None on every later call without
\* pulling from the source again; use_oks returns Err(e) with e the first Err
\* pulled, and Ok(result of body) exactly when body pulled no Err.
C30_UseOks ==
    adapter # NoCall =>
        /\ PullsInSourceOrder
        /\ YieldsOkPayloads
        /\ StopsAtFirstErr
        /\ ReturnsFirstErr

\* body got an Ok, pulled an Err, called twice more, and use_oks returned the
\* Err pulled although the source holds another.
C30_Witness ==
    /\ oks_source = <<Some(ResultOk(1)), Some(ResultErr("e1")), Some(ResultErr("e2"))>>
    /\ Len(calls) = MaxCalls
    /\ oks_result = ResultErr("e1")

\* use_oks returned Ok although the source holds an Err: body did not pull it.
UnpulledErr_Witness ==
    /\ oks_source = <<Some(ResultOk(1)), None, Some(ResultErr("e2"))>>
    /\ Len(calls) = 2
    /\ oks_result = ResultOk(<<Some(1), None>>)

====
